---- MODULE Spec2Model ----
(***************************************************************************)
(* Model of bgpsim (src/bgpsim.py): the AS graph, the announcement, the    *)
(* work queue and the path-inference engine ASGraph.infer_paths, with one  *)
(* action per step of the engine.                                          *)
(***************************************************************************)
EXTENDS Integers, Sequences, FiniteSets, TLC

VARIABLES
    graph,                 \* ASGraph.g: [nodes, adj, rel, import_filter]
    workqueue,             \* ASGraph.workqueue.pref2depth2edge
    self_announce,         \* ASGraph.announce: <<>> (None) or <<announcement>>
    announce,              \* argument of infer_paths: source2neighbor2path
    anycast_sources,       \* the list of sources make_anycast_announcement was called with
    stop_at_target_asn,    \* argument of infer_paths: {} (None) or {asn}
    stop_at_target_count,  \* argument of infer_paths
    initial_node_announcement_data,  \* argument of infer_paths: <<>> (None) or <<data>>
    calls,                 \* the number of calls of infer_paths made on the graph
    get_policy,            \* "pop" (WorkQueue.get) or "random" (workqueue_random_get)
    node_ann,              \* NodeAccouncementData of the running inference
    pc,                    \* position in infer_paths
    phase,                 \* index into Phases of the for loop of infer_paths
    seeds,                 \* seeds still to be passed to update_paths by make_announcements
    edge,                  \* local variable edge of infer_paths: <<>> (None) or <<exporter, importer>>
    get_depth,             \* local variable depth of the last get that returned an edge in this phase, 0 if none
    events,                \* what the registered callbacks have been called with
    early_stop,            \* the break of the early stop has been taken
    error                  \* the exception that ended infer_paths, "" if none

vars == <<graph, workqueue, self_announce, announce, anycast_sources, stop_at_target_asn,
          stop_at_target_count, initial_node_announcement_data, calls, get_policy, node_ann, pc, phase, seeds, edge,
          get_depth, events, early_stop, error>>

----------------------------------------------------------------------------
(* Bounds of the model *)

\* the AS numbers of the model
ASNs == {1, 2, 3, 4, 5}
\* the ASes the graphs of Spec are made of
GraphASNs == {1, 2, 3, 4}
\* at most this many peerings in a graph
MaxPeerings == 4
\* at most this many ASes after the source in an announced suffix
MaxSuffixLen == 2
\* stop_at_target_count ranges over 0..MaxStopCount
MaxStopCount == 1

----------------------------------------------------------------------------
(* PathPref and Relationship *)

CUSTOMER == 3
PEER == 2
PROVIDER == 1
UNKNOWN == 0

C2P == 1
P2P == 0
P2C == -1

Relationships == {P2C, P2P, C2P}

\* reversed that returns the relationship itself
not_reversed(rel) == rel

\* Relationship(-1 * self.value)
reversed(rel) == -1 * rel

\* the phases from the least to the most preferred relationship
PhasesWorstFirst == <<PROVIDER, PEER, CUSTOMER>>

\* the for loop of infer_paths runs over this list
Phases == <<CUSTOMER, PEER, PROVIDER>>

----------------------------------------------------------------------------
(* Helpers for Python's lists and dicts *)

Min(S) == CHOOSE x \in S : \A y \in S : x <= y

Max(S) == CHOOSE x \in S : \A y \in S : x >= y

RECURSIVE SortedSeq(_)
SortedSeq(S) == IF S = {} THEN <<>>
                ELSE LET m == Min(S) IN <<m>> \o SortedSeq(S \ {m})

Range(s) == {s[i] : i \in 1..Len(s)}

\* x in list
InSeq(x, s) == \E i \in 1..Len(s) : s[i] = x

RemoveAt(s, i) == SubSeq(s, 1, i - 1) \o SubSeq(s, i + 1, Len(s))

----------------------------------------------------------------------------
(* ASGraph: construction *)

EmptyGraph == [nodes |-> {}, adj |-> <<>>, rel |-> <<>>, import_filter |-> <<>>]

\* g.add_node(n) followed by nodes[n][NODE_IMPORT_FILTER] = None, when n is new
AddNode(G, n) ==
    IF n \in G.nodes THEN G
    ELSE [G EXCEPT !.nodes = @ \cup {n},
                   !.adj = @ @@ (n :> <<>>),
                   !.import_filter = @ @@ (n :> {})]

\* g.add_edge(a, b) followed by g[a][b][EDGE_REL] = rel
AddEdge(G, a, b, rel) ==
    [G EXCEPT !.adj = [@ EXCEPT ![a] = IF InSeq(b, @) THEN @ ELSE Append(@, b)],
              !.rel = IF <<a, b>> \in DOMAIN @ THEN [@ EXCEPT ![<<a, b>>] = rel]
                      ELSE @ @@ (<<a, b>> :> rel)]

\* add_peering that tags the edge back with the relationship itself
add_peering_same_tag(G, source, sink, relationship) ==
    AddEdge(AddEdge(AddNode(AddNode(G, source), sink),
                    source, sink, relationship),
            sink, source, relationship)

add_peering(G, source, sink, relationship) ==
    AddEdge(AddEdge(AddNode(AddNode(G, source), sink),
                    source, sink, relationship),
            sink, source, reversed(relationship))

\* the import filter of the tests, _check_origin, registered with data = origin
set_import_filter(G, asn, origin) ==
    [G EXCEPT !.import_filter[asn] = {[func |-> "check_origin", data |-> origin]}]

\* _check_origin(exporter, paths, origin)
check_origin(exporter, paths, origin) ==
    SelectSeq(paths, LAMBDA p : p[Len(p)] = origin)

\* graph.g[a] iterated: the neighbours of a in insertion order
Neighbors(G, a) == G.adj[a]

HasEdge(G, a, b) == <<a, b>> \in DOMAIN G.rel

\* from_relationship reading the edge from the exporter to the importer
from_relationship_at_exporter(G, exporter, importer) ==
    LET rel == G.rel[<<exporter, importer>>]
    IN  CASE rel = P2C -> CUSTOMER
          [] rel = P2P -> PEER
          [] rel = C2P -> PROVIDER

\* no case applies to any other rel: raise ValueError
from_relationship(G, exporter, importer) ==
    LET rel == G.rel[<<importer, exporter>>]
    IN  CASE rel = P2C -> CUSTOMER
          [] rel = P2P -> PEER
          [] rel = C2P -> PROVIDER

----------------------------------------------------------------------------
(* path_is_valley_free *)

\* the relationships list of path_is_valley_free can be built: every
\* graph.g[path[i]][path[i+1]] exists (otherwise KeyError)
PathEdgesExist(G, path) ==
    \A i \in 1..(Len(path) - 1) : HasEdge(G, path[i], path[i + 1])

path_is_valley_free(G, path) ==
    LET relationships == [i \in 1..(Len(path) - 1) |-> G.rel[<<path[i], path[i + 1]>>]]
    IN  /\ \A i \in 1..(Len(relationships) - 1) :
               ~(relationships[i] < relationships[i + 1])
        /\ ~(Cardinality({i \in 1..Len(relationships) : relationships[i] = P2P}) > 1)

----------------------------------------------------------------------------
(* WorkQueue *)

PrefKeys == {CUSTOMER, PEER, PROVIDER}

\* WorkQueue.__init__: three empty defaultdict(list)
EmptyWorkQueue == [p \in PrefKeys |-> <<>>]

\* pref2depth2edge[pref][depth].append(e)
Enqueue(wq, pref, depth, e) ==
    [wq EXCEPT ![pref] =
        IF depth \in DOMAIN @ THEN [@ EXCEPT ![depth] = Append(@, e)]
        ELSE @ @@ (depth :> <<e>>)]

\* the indexes (1-based) WorkQueue.get may remove from a list of n edges:
\* list.pop() takes the last one; workqueue_random_get of the tests draws
\* random.randint(max(0, n - TAIL_SHUFFLE), n - 1)
TAIL_SHUFFLE == 5

GetIndexes(policy, n) ==
    IF policy = "pop" THEN {n}
    ELSE Max({0, n - TAIL_SHUFFLE}) + 1 .. n

\* get without "del self.pref2depth2edge[pref][depth]"
get_keeping_depth(wq, pref, i) ==
    IF DOMAIN wq[pref] = {} THEN [edge |-> <<>>, wq |-> wq, depth |-> 0]
    ELSE LET depth == Min(DOMAIN wq[pref])
         IN  [edge |-> wq[pref][depth][i],
              wq |-> [wq EXCEPT ![pref][depth] = RemoveAt(@, i)],
              depth |-> depth]

\* get with max for min: the greatest depth first
get_deepest(wq, pref, i) ==
    IF DOMAIN wq[pref] = {} THEN [edge |-> <<>>, wq |-> wq, depth |-> 0]
    ELSE LET depth == Max(DOMAIN wq[pref])
             j == Len(wq[pref][depth])
             rest == RemoveAt(wq[pref][depth], j)
         IN  [edge |-> wq[pref][depth][j],
              wq |-> [wq EXCEPT ![pref] =
                         IF rest = <<>>
                         THEN [d \in DOMAIN @ \ {depth} |-> @[d]]
                         ELSE [@ EXCEPT ![depth] = rest]],
              depth |-> depth]

\* WorkQueue.get(pref), removing index i of the list at the smallest depth;
\* edge is <<>> for None; depth is the local variable depth of get, 0 when
\* get returns before it is set
get(wq, pref, i) ==
    IF DOMAIN wq[pref] = {} THEN [edge |-> <<>>, wq |-> wq, depth |-> 0]
    ELSE LET depth == Min(DOMAIN wq[pref])
             rest == RemoveAt(wq[pref][depth], i)
         IN  [edge |-> wq[pref][depth][i],
              wq |-> [wq EXCEPT ![pref] =
                         IF rest = <<>>
                         THEN [d \in DOMAIN @ \ {depth} |-> @[d]]
                         ELSE [@ EXCEPT ![depth] = rest]],
              depth |-> depth]

\* the number of edges get(pref) chooses from
GetChoices(wq, pref) ==
    IF DOMAIN wq[pref] = {} THEN 1 ELSE Len(wq[pref][Min(DOMAIN wq[pref])])

\* ExportsTo without the export rule: every neighbour is a downstream
ExportsToEveryone(G, na, exporter, downstream) == TRUE

\* the downstream ASes add_work and check_work consider for exporter
ExportsTo(G, na, exporter, downstream) ==
    \/ na.path_pref[exporter] = CUSTOMER
    \/ from_relationship(G, exporter, downstream) = PROVIDER

RECURSIVE AddWorkLoop(_, _, _, _, _)
AddWorkLoop(wq, G, na, exporter, todo) ==
    IF todo = <<>> THEN wq
    ELSE LET downstream == Head(todo)
             downstream_pref == from_relationship(G, exporter, downstream)
         IN  AddWorkLoop(
                 IF ExportsTo(G, na, exporter, downstream)
                 THEN Enqueue(wq, downstream_pref, na.path_len[exporter],
                              <<exporter, downstream>>)
                 ELSE wq,
                 G, na, exporter, Tail(todo))

\* add_work that enqueues nothing
add_work_none(wq, G, na, exporter) == wq

add_work(wq, G, na, exporter) ==
    AddWorkLoop(wq, G, na, exporter, Neighbors(G, exporter))

\* the downstream ASes whose assertion in check_work fails
CheckWorkMissing(wq, G, na, exporter) ==
    {downstream \in Range(Neighbors(G, exporter)) :
        /\ ExportsTo(G, na, exporter, downstream)
        /\ LET bucket == wq[from_relationship(G, exporter, downstream)]
               depth == na.path_len[exporter]
           IN  ~(depth \in DOMAIN bucket /\ InSeq(<<exporter, downstream>>, bucket[depth]))}

check_work(wq, G, na, exporter) == CheckWorkMissing(wq, G, na, exporter) = {}

\* check_work reads pref2depth2edge[downstream_pref][depth] of a defaultdict:
\* the read that fails the assertion leaves an empty list behind when the
\* depth was absent
RECURSIVE CheckWorkLoop(_, _, _, _, _)
CheckWorkLoop(wq, G, na, exporter, todo) ==
    IF todo = <<>> THEN wq
    ELSE LET downstream == Head(todo)
             downstream_pref == from_relationship(G, exporter, downstream)
             depth == na.path_len[exporter]
         IN  IF downstream \in CheckWorkMissing(wq, G, na, exporter)
             THEN IF depth \in DOMAIN wq[downstream_pref] THEN wq
                  ELSE [wq EXCEPT ![downstream_pref] = @ @@ (depth :> <<>>)]
             ELSE CheckWorkLoop(wq, G, na, exporter, Tail(todo))

----------------------------------------------------------------------------
(* NodeAccouncementData and update_paths *)

\* NodeAccouncementData(): path_pref defaults to UNKNOWN, best_paths to [],
\* path_len is an empty dict
EmptyNodeAnn ==
    [path_pref |-> [a \in ASNs |-> UNKNOWN],
     best_paths |-> [a \in ASNs |-> <<>>],
     path_len |-> <<>>]

SetPathLen(path_len, a, n) ==
    IF a \in DOMAIN path_len THEN [path_len EXCEPT ![a] = n]
    ELSE path_len @@ (a :> n)

\* CandidatePaths without the test "importer not in path"
CandidatePathsWithLoops(na, exporter, importer, announce_path) ==
    IF announce_path # <<>>
    THEN << <<exporter>> \o announce_path[1] >>
    ELSE [i \in 1..Len(na.best_paths[exporter]) |->
             <<exporter>> \o na.best_paths[exporter][i]]

\* new_paths of update_paths before the import filter; announce_path is <<>>
\* for None and <<path>> otherwise
CandidatePaths(na, exporter, importer, announce_path) ==
    IF announce_path # <<>>
    THEN << <<exporter>> \o announce_path[1] >>
    ELSE LET exported_paths == na.best_paths[exporter]
             kept == SelectSeq(exported_paths, LAMBDA p : ~InSeq(importer, p))
         IN  [i \in 1..Len(kept) |-> <<exporter>> \o kept[i]]

\* ApplyImportFilter that does not call the filter
ImportUnfiltered(G, exporter, importer, new_paths) == new_paths

\* func(exporter, new_paths, data) of the importer's NODE_IMPORT_FILTER
ApplyImportFilter(G, exporter, importer, new_paths) ==
    IF G.import_filter[importer] = {} THEN new_paths
    ELSE LET f == CHOOSE x \in G.import_filter[importer] : TRUE
         IN  check_origin(exporter, new_paths, f.data)

\* the importer's first paths: best_paths, path_len and path_pref are set
Install(na, importer, new_paths, new_pref) ==
    [na EXCEPT !.best_paths[importer] = new_paths,
               !.path_len = SetPathLen(@, importer, Len(new_paths[1])),
               !.path_pref[importer] = new_pref]

\* TiedForBest with >= for ==
TiedOrLonger(new_path_len, current_path_len) == new_path_len >= current_path_len

\* the test that decides whether new_paths are appended
TiedForBest(new_path_len, current_path_len) == new_path_len = current_path_len

\* ExtendTies with an assignment for extend
ReplaceTies(na, importer, new_paths) ==
    [na EXCEPT !.best_paths[importer] = new_paths]

\* best_paths[importer].extend(new_paths)
ExtendTies(na, importer, new_paths) ==
    [na EXCEPT !.best_paths[importer] = @ \o new_paths]

Returned(ret, na, wq) == [ret |-> ret, na |-> na, wq |-> wq, error |-> ""]

Raised(err, na, wq) == [ret |-> FALSE, na |-> na, wq |-> wq, error |-> err]

\* update_paths without the comparison with the importer's current
\* preference and length: the last paths offered are installed
update_paths_last_wins(G, wq, na, exporter, importer, announce_path) ==
    LET new_paths == ApplyImportFilter(G, exporter, importer,
                         CandidatePaths(na, exporter, importer, announce_path))
    IN  IF new_paths = <<>> THEN Returned(FALSE, na, wq)
        ELSE Returned(na.path_pref[importer] = UNKNOWN,
                      Install(na, importer, new_paths,
                              from_relationship(G, exporter, importer)),
                      wq)

\* update_paths that sets path_pref[importer] before the import filter is
\* applied to the candidates
update_paths_marking(G, wq, na, exporter, importer, announce_path) ==
    LET new_pref == from_relationship(G, exporter, importer)
        new_paths == ApplyImportFilter(G, exporter, importer,
                         CandidatePaths(na, exporter, importer, announce_path))
    IN  IF na.path_pref[importer] # UNKNOWN THEN Returned(FALSE, na, wq)
        ELSE IF new_paths = <<>>
        THEN Returned(FALSE, [na EXCEPT !.path_pref[importer] = new_pref], wq)
        ELSE Returned(TRUE, Install(na, importer, new_paths, new_pref), wq)

\* update_paths(node_ann, exporter, importer, announce_path): ret is the
\* value returned, error the exception raised ("" if none)
update_paths(G, wq, na, exporter, importer, announce_path) ==
    LET new_pref == from_relationship(G, exporter, importer)
        current_pref == na.path_pref[importer]
    IN
    IF ~(current_pref >= new_pref \/ current_pref = UNKNOWN)
    THEN Raised("AssertionError: current_pref >= new_pref", na, wq)
    ELSE IF current_pref > new_pref THEN Returned(FALSE, na, wq)
    ELSE IF announce_path # <<>> /\ InSeq(importer, announce_path[1])
    THEN Raised("AssertionError: importer not in announce_path", na, wq)
    ELSE
    LET new_paths == ApplyImportFilter(G, exporter, importer,
                         CandidatePaths(na, exporter, importer, announce_path))
    IN
    IF new_paths = <<>> THEN Returned(FALSE, na, wq)
    ELSE
    LET new_path_len == Len(new_paths[1]) IN
    IF current_pref = UNKNOWN
    THEN Returned(TRUE, Install(na, importer, new_paths, new_pref), wq)
    ELSE
    LET current_path_len == na.path_len[importer] IN
    IF ~(current_pref = new_pref)
    THEN Raised("AssertionError: current_pref == new_pref", na, wq)
    ELSE IF ~(new_path_len >= current_path_len)
    THEN Raised("AssertionError: new_path_len >= current_path_len", na, wq)
    ELSE IF \E i \in 1..Len(new_paths) : ~PathEdgesExist(G, new_paths[i])
    THEN Raised("KeyError: path_is_valley_free", na, wq)
    ELSE IF \E i \in 1..Len(new_paths) : ~path_is_valley_free(G, new_paths[i])
    THEN Raised("AssertionError: path_is_valley_free", na, wq)
    ELSE IF TiedForBest(new_path_len, current_path_len)
    THEN LET na2 == ExtendTies(na, importer, new_paths)
         IN  IF check_work(wq, G, na2, importer)
             THEN Returned(FALSE, na2, wq)
             ELSE Raised("AssertionError: check_work", na2,
                         CheckWorkLoop(wq, G, na2, importer, Neighbors(G, importer)))
    ELSE Returned(FALSE, na, wq)

----------------------------------------------------------------------------
(* Announcement *)

\* an announcement is source2neighbor2path: a function from its sources to
\* functions from neighbours to paths; both dicts are iterated in ascending
\* order of their keys
Sources(ann) == DOMAIN ann

\* make_anycast_announcement that announces to every other AS of the graph
make_anycast_announcement_to_all(G, sources) ==
    [src \in sources |-> [nei \in G.nodes \ {src} |-> <<>>]]

\* Announcement.make_anycast_announcement(asgraph, sources), for sources
\* that are nodes of the graph
make_anycast_announcement(G, sources) ==
    [src \in sources |-> [nei \in Range(Neighbors(G, src)) |-> <<>>]]

\* the (source, neighbour) pairs in the order of
\* "for src, nei2aspath in items(): for nei, aspath in items()"
RECURSIVE EntriesFrom(_, _)
EntriesFrom(ann, srcs) ==
    IF srcs = <<>> THEN <<>>
    ELSE LET src == Head(srcs)
             neis == SortedSeq(DOMAIN ann[src])
         IN  [i \in 1..Len(neis) |-> <<src, neis[i]>>] \o EntriesFrom(ann, Tail(srcs))

Entries(ann) == EntriesFrom(ann, SortedSeq(Sources(ann)))

\* CheckEntries without the test "neigh in path"
RECURSIVE CheckEntriesUnpoisoned(_, _, _)
CheckEntriesUnpoisoned(G, ann, todo) ==
    IF todo = <<>> THEN ""
    ELSE IF ~InSeq(Head(todo)[2], Neighbors(G, Head(todo)[1]))
    THEN "ValueError: Peering not in ASGraph"
    ELSE CheckEntriesUnpoisoned(G, ann, Tail(todo))

\* check_announcement(announce): the ValueError raised, "" if none
RECURSIVE CheckEntries(_, _, _)
CheckEntries(G, ann, todo) ==
    IF todo = <<>> THEN ""
    ELSE LET source == Head(todo)[1]
             neigh == Head(todo)[2]
         IN  IF ~InSeq(neigh, Neighbors(G, source))
             THEN "ValueError: Peering not in ASGraph"
             ELSE IF InSeq(neigh, ann[source][neigh])
             THEN "ValueError: Neighbor poisoned in announcement"
             ELSE CheckEntries(G, ann, Tail(todo))

RECURSIVE CheckSources(_, _, _)
CheckSources(G, ann, srcs) ==
    IF srcs = <<>> THEN ""
    ELSE LET source == Head(srcs)
             neis == SortedSeq(DOMAIN ann[source])
             err == IF source \notin G.nodes
                    THEN "ValueError: Source not in ASGraph"
                    ELSE CheckEntries(G, ann, [i \in 1..Len(neis) |-> <<source, neis[i]>>])
         IN  IF err # "" THEN err ELSE CheckSources(G, ann, Tail(srcs))

check_announcement(G, ann) == CheckSources(G, ann, SortedSeq(Sources(ann)))

----------------------------------------------------------------------------
(* make_announcements *)

Event(kind, a, b, pref, path) ==
    [kind |-> kind, a |-> a, b |-> b, pref |-> pref, path |-> path]

\* the entries of the announcement make_announcements considers in phase pref
PhaseEntries(G, ann, pref) ==
    SelectSeq(Entries(ann), LAMBDA e : from_relationship(G, e[1], e[2]) = pref)

\* the keys of nei2len2srcs in insertion order
RECURSIVE FirstOccurrences(_, _)
FirstOccurrences(s, seen) ==
    IF s = <<>> THEN <<>>
    ELSE IF Head(s) \in seen THEN FirstOccurrences(Tail(s), seen)
    ELSE <<Head(s)>> \o FirstOccurrences(Tail(s), seen \cup {Head(s)})

\* SeedsOf without the choice of the minimum length: every source of
\* every neighbour
RECURSIVE SeedsOfAnyLength(_, _, _)
SeedsOfAnyLength(ann, es, neis) ==
    IF neis = <<>> THEN <<>>
    ELSE SelectSeq(es, LAMBDA e : e[2] = Head(neis))
         \o SeedsOfAnyLength(ann, es, Tail(neis))

\* the (src, nei) pairs of the second loop, in its order: for each neighbour
\* the sources of len2srcs[min(len2srcs.keys())]
RECURSIVE SeedsOf(_, _, _)
SeedsOf(ann, es, neis) ==
    IF neis = <<>> THEN <<>>
    ELSE LET nei == Head(neis)
             mine == SelectSeq(es, LAMBDA e : e[2] = nei)
             length == Min({Len(ann[mine[i][1]][nei]) : i \in 1..Len(mine)})
         IN  SelectSeq(mine, LAMBDA e : Len(ann[e[1]][nei]) = length)
             \o SeedsOf(ann, es, Tail(neis))

Seeds(G, ann, pref) ==
    LET es == PhaseEntries(G, ann, pref)
    IN  SeedsOf(ann, es, FirstOccurrences([i \in 1..Len(es) |-> es[i][2]], {}))

\* AnnounceEvents that calls the callback in the second loop: for the
\* entries passed to update_paths only
AnnounceEventsOfSeeds(G, ann, pref) ==
    LET es == Seeds(G, ann, pref)
    IN  [i \in 1..Len(es) |->
            Event("NEIGHBOR_ANNOUNCE", es[i][1], es[i][2], pref, ann[es[i][1]][es[i][2]])]

\* the NEIGHBOR_ANNOUNCE callbacks of the first loop
AnnounceEvents(G, ann, pref) ==
    LET es == PhaseEntries(G, ann, pref)
    IN  [i \in 1..Len(es) |->
            Event("NEIGHBOR_ANNOUNCE", es[i][1], es[i][2], pref, ann[es[i][1]][es[i][2]])]

----------------------------------------------------------------------------
(* infer_paths, step by step *)

\* the state infer_paths works on
Machine ==
    [workqueue |-> workqueue, self_announce |-> self_announce,
     node_ann |-> node_ann, pc |-> pc, phase |-> phase, seeds |-> seeds,
     edge |-> edge, depth |-> get_depth, events |-> events,
     early_stop |-> early_stop, error |-> error]

Raise(M, err) == [M EXCEPT !.pc = "raised", !.error = err]

\* Enter with self.announce = announce before check_announcement
EnterRemembersFirst(M) ==
    IF check_announcement(graph, announce) # ""
    THEN [Raise(M, check_announcement(graph, announce))
             EXCEPT !.self_announce = <<announce>>]
    ELSE [M EXCEPT !.self_announce = <<announce>>,
                   !.node_ann = EmptyNodeAnn,
                   !.pc = "phase",
                   !.phase = 1]

\* check_announcement, self.announce = announce, node_ann = NodeAccouncementData()
Enter(M) ==
    LET err == check_announcement(graph, announce)
    IN  IF err # "" THEN Raise(M, err)
        ELSE [M EXCEPT !.self_announce = <<announce>>,
                       !.node_ann = EmptyNodeAnn,
                       !.pc = "phase",
                       !.phase = 1]

\* the head of the for loop: the START_RELATIONSHIP_PHASE callback and the
\* first loop of make_announcements
StartPhase(M) ==
    LET pref == Phases[M.phase]
    IN  [M EXCEPT !.events = @ \o <<Event("START_RELATIONSHIP_PHASE", 0, 0, pref, <<>>)>>
                               \o AnnounceEvents(graph, M.self_announce[1], pref),
                  !.seeds = Seeds(graph, M.self_announce[1], pref),
                  !.depth = 0,
                  !.pc = "seeding"]

\* one iteration of the second loop of make_announcements
Seed(M) ==
    LET src == Head(M.seeds)[1]
        nei == Head(M.seeds)[2]
        announce_path == M.self_announce[1][src][nei]
        r == update_paths(graph, M.workqueue, M.node_ann, src, nei, <<announce_path>>)
    IN  IF r.error # ""
        THEN [Raise(M, r.error) EXCEPT !.node_ann = r.na, !.workqueue = r.wq]
        ELSE [M EXCEPT !.node_ann = r.na,
                       !.workqueue = IF r.ret THEN add_work(r.wq, graph, r.na, nei)
                                      ELSE r.wq,
                       !.seeds = Tail(@)]

\* edge = self.workqueue.get(pref), get removing index i
GetEdge(M, i) ==
    LET got == get(M.workqueue, Phases[M.phase], i)
    IN  [M EXCEPT !.edge = got.edge, !.workqueue = got.wq,
                  !.depth = IF got.edge # <<>> THEN got.depth ELSE @,
                  !.pc = "drain"]

\* the condition of the break in the while loop
StopNow(M) ==
    /\ stop_at_target_asn # {}
    /\ \E t \in stop_at_target_asn :
           Len(M.node_ann.best_paths[t]) > stop_at_target_count

\* LeaveWhile that stays in the while loop
StayInWhile(M) == M

\* the while loop is left (edge is None, or break): the for loop goes on
\* with the next pref, and infer_paths returns after the last
LeaveWhile(M) ==
    IF M.phase < Len(Phases)
    THEN [M EXCEPT !.pc = "phase", !.phase = @ + 1]
    ELSE [M EXCEPT !.pc = "returned"]

\* the body of the while loop up to the get that ends it
VisitBody(M) ==
    LET pref == Phases[M.phase]
        exporter == M.edge[1]
        importer == M.edge[2]
        M1 == [M EXCEPT !.events =
                  Append(@, Event("VISIT_EDGE", exporter, importer, pref, <<>>))]
    IN  IF importer \in Sources(announce) THEN M1
        ELSE IF from_relationship(graph, exporter, importer) # pref
        THEN Raise(M1, "AssertionError: from_relationship == pref")
        ELSE LET r == update_paths(graph, M1.workqueue, M1.node_ann,
                                   exporter, importer, <<>>)
             IN  IF r.error # ""
                 THEN [Raise(M1, r.error) EXCEPT !.node_ann = r.na, !.workqueue = r.wq]
                 ELSE [M1 EXCEPT !.node_ann = r.na,
                                 !.workqueue = IF r.ret
                                                THEN add_work(r.wq, graph, r.na, importer)
                                                ELSE r.wq]

Visit(M, i) ==
    LET M1 == VisitBody(M)
    IN  IF M1.pc = "raised" THEN M1 ELSE GetEdge(M1, i)

\* the indexes get may remove in state M for the policy
Indexes(M, policy) == GetIndexes(policy, GetChoices(M.workqueue, Phases[M.phase]))

\* the step infer_paths takes in state M when get pops the last edge and
\* the condition of the break has the value stop
StepPopWith(M, stop) ==
    IF M.pc = "start" THEN Enter(M)
    ELSE IF M.pc = "phase" THEN StartPhase(M)
    ELSE IF M.pc = "seeding"
    THEN IF M.seeds # <<>> THEN Seed(M)
         ELSE GetEdge(M, Max(Indexes(M, "pop")))
    ELSE IF M.edge = <<>> THEN LeaveWhile(M)
    ELSE IF stop THEN LeaveWhile([M EXCEPT !.early_stop = TRUE])
    ELSE Visit(M, Max(Indexes(VisitBody(M), "pop")))

StepPop(M) == StepPopWith(M, StopNow(M))

\* infer_paths called in state M, run until it returns or raises
RECURSIVE infer_paths(_)
infer_paths(M) ==
    IF M.pc \in {"returned", "raised"} THEN M ELSE infer_paths(StepPop(M))

\* infer_paths called in state M with stop_at_target_asn = None
RECURSIVE infer_paths_no_stop(_)
infer_paths_no_stop(M) ==
    IF M.pc \in {"returned", "raised"} THEN M
    ELSE infer_paths_no_stop(StepPopWith(M, FALSE))

----------------------------------------------------------------------------
(* Actions *)

\* Apply for an inference that removes the import filters from the graph
ApplyRemovingFilters(M) ==
    \E m \in {M} :
        /\ workqueue' = m.workqueue
        /\ self_announce' = m.self_announce
        /\ node_ann' = m.node_ann
        /\ pc' = m.pc
        /\ phase' = m.phase
        /\ seeds' = m.seeds
        /\ edge' = m.edge
        /\ get_depth' = m.depth
        /\ events' = m.events
        /\ early_stop' = m.early_stop
        /\ error' = m.error
        /\ graph' = [graph EXCEPT !.import_filter = [n \in graph.nodes |-> {}]]
        /\ UNCHANGED <<announce, anycast_sources, stop_at_target_asn,
                       stop_at_target_count, initial_node_announcement_data, calls,
                       get_policy>>

\* a step of infer_paths: it writes the fields of the machine and nothing of
\* the graph or of its own arguments
Apply(M) ==
    \E m \in {M} :
        /\ workqueue' = m.workqueue
        /\ self_announce' = m.self_announce
        /\ node_ann' = m.node_ann
        /\ pc' = m.pc
        /\ phase' = m.phase
        /\ seeds' = m.seeds
        /\ edge' = m.edge
        /\ get_depth' = m.depth
        /\ events' = m.events
        /\ early_stop' = m.early_stop
        /\ error' = m.error
        /\ UNCHANGED <<graph, announce, anycast_sources, stop_at_target_asn, stop_at_target_count,
                       initial_node_announcement_data, calls, get_policy>>

\* infer_paths is called and check_announcement raises
EnterInvalid ==
    /\ pc = "start"
    /\ check_announcement(graph, announce) # ""
    /\ Apply(Enter(Machine))

\* infer_paths is called and the announcement passes check_announcement
EnterValid ==
    /\ pc = "start"
    /\ check_announcement(graph, announce) = ""
    /\ Apply(Enter(Machine))

DoStartPhase ==
    /\ pc = "phase"
    /\ Apply(StartPhase(Machine))

DoSeed ==
    /\ pc = "seeding"
    /\ seeds # <<>>
    /\ Apply(Seed(Machine))

\* make_announcements has returned: the first get of the phase
DoFirstGet ==
    /\ pc = "seeding"
    /\ seeds = <<>>
    /\ \E i \in Indexes(Machine, get_policy) : Apply(GetEdge(Machine, i))

\* "while edge" finds edge None
DoPhaseDrained ==
    /\ pc = "drain"
    /\ edge = <<>>
    /\ Apply(LeaveWhile(Machine))

\* the break of the early stop
DoEarlyStop ==
    /\ pc = "drain"
    /\ edge # <<>>
    /\ StopNow(Machine)
    /\ Apply(LeaveWhile([Machine EXCEPT !.early_stop = TRUE]))

DoVisit ==
    /\ pc = "drain"
    /\ edge # <<>>
    /\ ~StopNow(Machine)
    /\ \E i \in Indexes(VisitBody(Machine), get_policy) : Apply(Visit(Machine, i))

Next ==
    \/ EnterInvalid
    \/ EnterValid
    \/ DoStartPhase
    \/ DoSeed
    \/ DoFirstGet
    \/ DoPhaseDrained
    \/ DoEarlyStop
    \/ DoVisit

----------------------------------------------------------------------------
(* The graphs and announcements the inference is run on *)

Pairs == {e \in GraphASNs \X GraphASNs : e[1] < e[2]}

\* the pairs of E in lexicographic order
RECURSIVE SortedPairs(_)
SortedPairs(E) ==
    IF E = {} THEN <<>>
    ELSE LET m == CHOOSE x \in E : \A y \in E :
                      x[1] < y[1] \/ (x[1] = y[1] /\ x[2] <= y[2])
         IN  <<m>> \o SortedPairs(E \ {m})

RECURSIVE AddPeerings(_, _, _)
AddPeerings(G, todo, r) ==
    IF todo = <<>> THEN G
    ELSE AddPeerings(add_peering(G, Head(todo)[1], Head(todo)[2], r[Head(todo)]),
                     Tail(todo), r)

\* ASGraph() followed by add_peering(a, b, r[a, b]) for the pairs of E
BuildGraph(E, r) == AddPeerings(EmptyGraph, SortedPairs(E), r)

Graphs ==
    UNION {{BuildGraph(E, r) : r \in [E -> Relationships]} :
              E \in {F \in SUBSET Pairs : Cardinality(F) <= MaxPeerings}}

\* graph.set_import_filter(3, _check_origin, 1), or no filter at all
WithFilter(G) ==
    {G} \cup (IF 3 \in G.nodes THEN {set_import_filter(G, 3, 1)} ELSE {})

\* the suffix of prepending: the source n times
Prepended(src, n) == [i \in 1..n |-> src]

\* the suffixes written into the entry of source 1 for neighbour 3:
\* prepending, poisoning of AS 4 and of AS 2, and AS 3 itself
Suffixes ==
    {Prepended(1, n) : n \in 1..MaxSuffixLen} \cup {<<4>>, <<2>>, <<3>>}

\* an announcement built by hand: source -> {}, for sources not in the graph
AnycastOrEmpty(G, sources) ==
    [src \in sources |->
        IF src \in G.nodes THEN make_anycast_announcement(G, {src})[src] ELSE <<>>]

\* announce.source2neighbor2path[src][nei] = path
Override(ann, src, nei, path) ==
    [ann EXCEPT ![src] = IF nei \in DOMAIN @ THEN [@ EXCEPT ![nei] = path]
                         ELSE @ @@ (nei :> path)]

Announcements(G) ==
    LET anycast == {AnycastOrEmpty(G, S) : S \in {{1}, {1, 2}}}
    IN  anycast \cup {Override(a, 1, 3, p) : a \in anycast, p \in Suffixes}

InitMachine ==
    /\ workqueue = EmptyWorkQueue
    /\ self_announce = <<>>
    /\ node_ann = EmptyNodeAnn
    /\ pc = "start"
    /\ phase = 1
    /\ seeds = <<>>
    /\ edge = <<>>
    /\ get_depth = 0
    /\ events = <<>>
    /\ early_stop = FALSE
    /\ error = ""
    /\ calls = 1
    /\ anycast_sources = <<>>

Init ==
    /\ InitMachine
    /\ initial_node_announcement_data = <<>>
    /\ get_policy = "pop"
    /\ \E G \in Graphs :
        \/ /\ graph \in WithFilter(G)
           /\ announce \in Announcements(G)
           /\ stop_at_target_asn = {}
           /\ stop_at_target_count = 2
        \/ /\ graph = G
           /\ announce = AnycastOrEmpty(G, {1})
           /\ stop_at_target_asn = {4}
           /\ stop_at_target_count \in 0..MaxStopCount

Spec == Init /\ [][Next]_vars

\* the state in which infer_paths is called on a new ASGraph
StartMachine ==
    [workqueue |-> EmptyWorkQueue, self_announce |-> <<>>,
     node_ann |-> EmptyNodeAnn, pc |-> "start", phase |-> 1, seeds |-> <<>>,
     edge |-> <<>>, depth |-> 0, events |-> <<>>, early_stop |-> FALSE,
     error |-> ""]

\* infer_paths is sequential code that runs without waiting: while it has
\* neither returned nor raised it takes its next step
InitLive ==
    /\ workqueue = EmptyWorkQueue
    /\ self_announce = <<>>
    /\ node_ann = EmptyNodeAnn
    /\ pc = "build"
    /\ phase = 1
    /\ seeds = <<>>
    /\ edge = <<>>
    /\ get_depth = 0
    /\ events = <<>>
    /\ early_stop = FALSE
    /\ error = ""
    /\ calls = 1
    /\ anycast_sources = <<>>
    /\ initial_node_announcement_data = <<>>
    /\ get_policy = "pop"
    /\ graph = EmptyGraph
    /\ announce = <<>>
    /\ stop_at_target_asn = {}
    /\ stop_at_target_count = 2

\* AS 1 and AS 2 next to AS 3, and AS 4 behind AS 3, with every assignment
\* of relationships
LivePairs == {<<1, 3>>, <<2, 3>>, <<3, 4>>}

LiveGraphs == {BuildGraph(LivePairs, r) : r \in [LivePairs -> Relationships]}

\* the announcements from AS 1 and AS 2 with the suffixes of Spec, the one
\* from AS 1, and the one from AS 5 that is not in the graph
LiveAnnouncements(G) ==
    {make_anycast_announcement(G, {1}), (5 :> <<>>)}
    \cup {Override(make_anycast_announcement(G, {1, 2}), 1, 3, p) :
              p \in Suffixes \cup {<<>>}}

\* the caller builds a graph and an announcement and chooses the stop
\* parameters
Build ==
    /\ pc = "build"
    /\ pc' = "start"
    /\ \E G \in LiveGraphs :
        \/ /\ graph' \in WithFilter(G)
           /\ announce' \in LiveAnnouncements(G)
           /\ UNCHANGED <<stop_at_target_asn, stop_at_target_count>>
        \/ /\ graph' = G
           /\ announce' = AnycastOrEmpty(G, {1})
           /\ stop_at_target_asn' = {4}
           /\ stop_at_target_count' \in 0..MaxStopCount
    /\ UNCHANGED <<workqueue, self_announce, node_ann, phase, seeds, edge, get_depth, events,
                   early_stop, error, calls, initial_node_announcement_data,
                   get_policy, anycast_sources>>

NextLive ==
    \/ Build
    \/ Next

SpecLive == InitLive /\ [][NextLive]_vars /\ WF_vars(NextLive)

\* infer_paths has returned or raised and is called a second time on the
\* same ASGraph: with the same announcement or with one whose source is not
\* in the graph, and with the same stop parameters or none
CallAgain ==
    /\ pc \in {"returned", "raised"}
    /\ calls = 1
    /\ calls' = calls + 1
    /\ announce' \in {announce, (5 :> <<>>)}
    /\ \/ UNCHANGED <<stop_at_target_asn, stop_at_target_count>>
       \/ /\ stop_at_target_asn # {}
          /\ stop_at_target_asn' = {}
          /\ stop_at_target_count' = 2
    /\ pc' = "start"
    /\ phase' = 1
    /\ seeds' = <<>>
    /\ edge' = <<>>
    /\ get_depth' = 0
    /\ events' = <<>>
    /\ early_stop' = FALSE
    /\ error' = ""
    /\ UNCHANGED <<graph, workqueue, self_announce, node_ann,
                   initial_node_announcement_data, get_policy, anycast_sources>>

NextReuse ==
    \/ Next
    \/ CallAgain

SpecReuse == Init /\ [][NextReuse]_vars

\* test_diamond_exhaustive: the six peerings of the diamond 1-{2,3,4}-5 with
\* every assignment of relationships, announced from AS 1
DiamondPairs == {<<1, 2>>, <<1, 3>>, <<1, 4>>, <<2, 5>>, <<3, 5>>, <<4, 5>>}

InitDiamond ==
    /\ InitMachine
    /\ initial_node_announcement_data = <<>>
    /\ get_policy = "pop"
    /\ \E r \in [DiamondPairs -> Relationships] :
        /\ graph = BuildGraph(DiamondPairs, r)
        /\ announce = make_anycast_announcement(graph, {1})
    /\ stop_at_target_asn = {}
    /\ stop_at_target_count = 2

NextComplete ==
    \/ EnterValid
    \/ DoStartPhase
    \/ DoSeed
    \/ DoFirstGet
    \/ DoPhaseDrained
    \/ DoVisit

SpecDiamond == InitDiamond /\ [][NextComplete]_vars

\* test_random_sources_on_caida_graph: WorkQueue.get patched with
\* workqueue_random_get, on the graphs of Spec without import filters and
\* the announcements of Spec that check_announcement accepts
InitTieOrder ==
    /\ InitMachine
    /\ initial_node_announcement_data = <<>>
    /\ get_policy = "random"
    /\ \E G \in Graphs :
        /\ graph = G
        /\ announce \in Announcements(G)
        /\ check_announcement(graph, announce) = ""
    /\ stop_at_target_asn = {}
    /\ stop_at_target_count = 2

SpecTieOrder == InitTieOrder /\ [][NextComplete]_vars

\* a NodeAccouncementData programmed by the caller: AS a holds the path
\* <<1>> with preference CUSTOMER
Programmed(a) == Install(EmptyNodeAnn, a, << <<1>> >>, CUSTOMER)

\* infer_paths(announce, initial_node_announcement_data=...) on the graphs of
\* Spec that hold AS 1, for the anycast announcement from AS 1
InitInitial ==
    /\ InitMachine
    /\ get_policy = "pop"
    /\ \E G \in Graphs :
        /\ 1 \in G.nodes
        /\ graph = G
        /\ announce = make_anycast_announcement(G, {1})
    /\ stop_at_target_asn = {}
    /\ stop_at_target_count = 2
    /\ initial_node_announcement_data \in {<<>>, <<Programmed(2)>>, <<Programmed(5)>>}

SpecInitial == InitInitial /\ [][NextComplete]_vars

\* the ASes the graphs under construction are made of
BuildASNs == {1, 2, 3}

\* at most this many sources in the list given to make_anycast_announcement
MaxSources == 2

\* the lists of sources given to make_anycast_announcement: ASes of the
\* graphs and AS 5 that is in none, in any order and with repetitions
SourceLists == UNION {[1..n -> BuildASNs \cup {5}] : n \in 0..MaxSources}

\* graph.add_peering(source, sink, relationship) between two ASes
DoAddPeering ==
    /\ pc = "build"
    /\ \E source, sink \in BuildASNs, relationship \in Relationships :
        /\ source # sink
        /\ graph' = add_peering(graph, source, sink, relationship)
    /\ UNCHANGED <<workqueue, self_announce, announce, anycast_sources, stop_at_target_asn,
                   stop_at_target_count, initial_node_announcement_data, calls,
                   get_policy, node_ann, pc, phase, seeds, edge, get_depth, events,
                   early_stop, error>>

\* graph.set_import_filter(asn, _check_origin, 1) for an AS of the graph
DoSetImportFilter ==
    /\ pc = "build"
    /\ \E asn \in graph.nodes : graph' = set_import_filter(graph, asn, 1)
    /\ UNCHANGED <<workqueue, self_announce, announce, anycast_sources, stop_at_target_asn,
                   stop_at_target_count, initial_node_announcement_data, calls,
                   get_policy, node_ann, pc, phase, seeds, edge, get_depth, events,
                   early_stop, error>>

\* announce = Announcement.make_anycast_announcement(graph, sources), the
\* last step before infer_paths is called
DoMakeAnycast ==
    /\ pc = "build"
    /\ \E srcs \in SourceLists :
        /\ Range(srcs) \subseteq graph.nodes
        /\ anycast_sources' = srcs
        /\ announce' = make_anycast_announcement(graph, Range(srcs))
    /\ pc' = "start"
    /\ UNCHANGED <<graph, workqueue, self_announce, stop_at_target_asn,
                   stop_at_target_count, initial_node_announcement_data, calls,
                   get_policy, node_ann, phase, seeds, edge, get_depth, events,
                   early_stop, error>>

\* asgraph.g[src] raises KeyError for a source that is not in the graph
DoMakeAnycastKeyError ==
    /\ pc = "build"
    /\ \E srcs \in SourceLists :
        /\ ~(Range(srcs) \subseteq graph.nodes)
        /\ anycast_sources' = srcs
    /\ pc' = "raised"
    /\ error' = "KeyError: make_anycast_announcement"
    /\ UNCHANGED <<graph, workqueue, self_announce, announce, stop_at_target_asn,
                   stop_at_target_count, initial_node_announcement_data, calls,
                   get_policy, node_ann, phase, seeds, edge, get_depth, events,
                   early_stop>>

NextBuild ==
    \/ DoAddPeering
    \/ DoSetImportFilter
    \/ DoMakeAnycast
    \/ DoMakeAnycastKeyError

\* the construction of a graph and of an anycast announcement on a new ASGraph
SpecBuild == InitLive /\ [][NextBuild]_vars

----------------------------------------------------------------------------
(* Notions the properties are stated with *)

\* a list as a multiset: the number of occurrences of each element
BagOf(s) == [x \in Range(s) |-> Cardinality({i \in 1..Len(s) : s[i] = x})]

SameMultiset(s, t) == BagOf(s) = BagOf(t)

Completed == pc = "returned" /\ ~early_stop

\* infer_paths is running or has ended, on a validated announcement
Inferring == pc \in {"phase", "seeding", "drain", "returned"} \/ (pc = "raised" /\ self_announce # <<>>)

\* PathPref(exporter -> importer), for an edge of the graph
PathPrefOf(exporter, importer) ==
    LET r == graph.rel[<<exporter, importer>>]
    IN  IF r = P2C THEN PROVIDER ELSE IF r = P2P THEN PEER ELSE CUSTOMER

\* the paths offered to AS a in the state: the announcement's entries for a
\* and what the neighbours of a export to a, without those a's import
\* filter rejects
OfferedBySources(a) ==
    LET srcs == SortedSeq({s \in Sources(announce) : a \in DOMAIN announce[s]})
    IN  [i \in 1..Len(srcs) |-> <<srcs[i]>> \o announce[srcs[i]][a]]

RECURSIVE OfferedByNeighbours(_, _)
OfferedByNeighbours(a, bs) ==
    IF bs = <<>> THEN <<>>
    ELSE LET b == Head(bs)
             ps == SelectSeq(node_ann.best_paths[b], LAMBDA p : ~InSeq(a, p))
         IN  (IF node_ann.path_pref[b] = CUSTOMER \/ PathPrefOf(b, a) = PROVIDER
              THEN [i \in 1..Len(ps) |-> <<b>> \o ps[i]]
              ELSE <<>>)
             \o OfferedByNeighbours(a, Tail(bs))

Offered(a) ==
    LET all == OfferedBySources(a)
               \o OfferedByNeighbours(a, SortedSeq({b \in graph.nodes : <<b, a>> \in DOMAIN graph.rel}))
    IN  IF graph.import_filter[a] = {} THEN all
        ELSE SelectSeq(all, LAMBDA p :
                 \E f \in graph.import_filter[a] : p[Len(p)] = f.data)

\* AS a holds exactly the best of what it is offered
IsFixedPointAt(a) ==
    LET c == Offered(a)
        prefs == {PathPrefOf(c[i][1], a) : i \in 1..Len(c)}
    IN  IF c = <<>>
        THEN node_ann.path_pref[a] = UNKNOWN /\ node_ann.best_paths[a] = <<>>
        ELSE LET best == Max(prefs)
                 ofBest == SelectSeq(c, LAMBDA p : PathPrefOf(p[1], a) = best)
                 shortest == Min({Len(ofBest[i]) : i \in 1..Len(ofBest)})
             IN  /\ node_ann.path_pref[a] = best
                 /\ a \in DOMAIN node_ann.path_len
                 /\ node_ann.path_len[a] = shortest
                 /\ SameMultiset(node_ann.best_paths[a],
                                 SelectSeq(ofBest, LAMBDA p : Len(p) = shortest))

----------------------------------------------------------------------------
(* C1: after infer_paths returns without an early stop, every AS that is   *)
(* not an announcement source holds exactly the best (highest first-hop    *)
(* preference, then shortest) of the paths the announcement and its        *)
(* neighbours offer it through its import filter.                          *)
C1_FixedPoint ==
    Completed => \A a \in graph.nodes \ Sources(announce) : IsFixedPointAt(a)

\* the graph and announcement of the failing case: AS 1 and AS 2 are
\* providers of AS 3, AS 3 accepts only paths that end in AS 1, AS 1
\* prepends itself towards AS 3 and AS 2 does not
C1_FailingInput ==
    /\ graph = set_import_filter(
                   add_peering(add_peering(EmptyGraph, 1, 3, P2C), 2, 3, P2C), 3, 1)
    /\ announce = (1 :> (3 :> <<1>>)) @@ (2 :> (3 :> <<>>))

\* on that input AS 3 ends with no path although <<1, 1>> passes its filter
C1_Divergence ==
    C1_FailingInput /\ Completed =>
        /\ node_ann.path_pref[3] = UNKNOWN
        /\ node_ann.best_paths[3] = <<>>
        /\ Offered(3) = << <<1, 1>> >>

----------------------------------------------------------------------------
(* Valley-free loop-free paths of the graph *)

NoImportFilters == \A a \in graph.nodes : graph.import_filter[a] = {}

EmptySuffixes ==
    \A s \in Sources(announce) : \A n \in DOMAIN announce[s] : announce[s][n] = <<>>

Injective(p) == \A i, j \in 1..Len(p) : i # j => p[i] # p[j]

\* the sequences of distinct nodes that do not hold all the nodes
SimplePaths ==
    {p \in UNION {[1..n -> graph.nodes] : n \in 1..(Cardinality(graph.nodes) - 1)} :
        Injective(p)}

\* a followed by p walks edges of the graph and is valley-free: the
\* relationships do not increase and hold at most one P2P
ValleyFreeFrom(a, p) ==
    LET full == <<a>> \o p
        rels == [i \in 1..Len(p) |-> graph.rel[<<full[i], full[i + 1]>>]]
    IN  /\ \A i \in 1..Len(p) : <<full[i], full[i + 1]>> \in DOMAIN graph.rel
        /\ \A i \in 1..(Len(p) - 1) : rels[i] >= rels[i + 1]
        /\ Cardinality({i \in 1..Len(p) : rels[i] = P2P}) <= 1

\* the valley-free loop-free paths from a to an announcement source
VFPaths(a) ==
    {p \in SimplePaths :
        /\ ~InSeq(a, p)
        /\ p[Len(p)] \in Sources(announce)
        /\ ValleyFreeFrom(a, p)}

\* those whose remainder after the first hop is stored at the first hop, or
\* that are the hop to a source
VFPathsExported(a) ==
    {p \in VFPaths(a) : Len(p) = 1 \/ InSeq(Tail(p), node_ann.best_paths[p[1]])}

Stored(a) == Range(node_ann.best_paths[a])

\* every stored path is better than every path of the set qs: no worse in
\* first-hop preference and, at equal preference, no longer
StoredAreBestOf(a, qs) ==
    \A p \in Stored(a), q \in qs :
        /\ PathPrefOf(q[1], a) <= PathPrefOf(p[1], a)
        /\ PathPrefOf(q[1], a) = PathPrefOf(p[1], a) => Len(q) >= Len(p)

\* every path of qs that is not stored has a worse first-hop preference or
\* is strictly longer than the stored ones
UnstoredAreWorseOf(a, qs) ==
    \A q \in qs \ Stored(a) : \A p \in Stored(a) :
        PathPrefOf(q[1], a) < PathPrefOf(p[1], a) \/ Len(q) > Len(p)

----------------------------------------------------------------------------
(* C3: under SpecDiamond, after infer_paths completes, best_paths[5] is as *)
(* a multiset the paths <<t, 1>> over the transits t of {2, 3, 4} whose    *)
(* route propagates (AS 1 is a customer of t, or t is a provider of AS 5)  *)
(* and whose preference at AS 5 is the maximum over the propagating        *)
(* transits, and path_pref[5] is that maximum, UNKNOWN when no transit     *)
(* propagates.                                                             *)
Transits == {2, 3, 4}

\* the preference of AS 5 for the route of transit t
PrefAt5(t) ==
    IF graph.rel[<<5, t>>] = P2C THEN CUSTOMER
    ELSE IF graph.rel[<<5, t>>] = P2P THEN PEER ELSE PROVIDER

Propagating == {t \in Transits : graph.rel[<<t, 1>>] = P2C \/ graph.rel[<<t, 5>>] = P2C}

DiamondBestPref == Max({UNKNOWN} \cup {PrefAt5(t) : t \in Propagating})

DiamondBestPaths == {<<t, 1>> : t \in {u \in Propagating : PrefAt5(u) = DiamondBestPref}}

C3_DiamondReference ==
    Completed =>
        /\ node_ann.path_pref[5] = DiamondBestPref
        /\ Stored(5) = DiamondBestPaths
        /\ Len(node_ann.best_paths[5]) = Cardinality(DiamondBestPaths)

\* a diamond where AS 5 ends with two tied paths and a third transit does
\* not propagate
C3_Witness ==
    /\ Completed
    /\ DOMAIN graph.rel = DiamondPairs \cup {<<e[2], e[1]>> : e \in DiamondPairs}
    /\ Len(node_ann.best_paths[5]) = 2
    /\ Cardinality(Propagating) = 2

----------------------------------------------------------------------------
(* C4: under SpecTieOrder, where get removes any of the edges that         *)
(* workqueue_random_get may remove, a completed inference holds for every  *)
(* AS the same path_pref, the same path_len and the same best_paths as a   *)
(* multiset as the inference of the same graph and announcement in which   *)
(* get pops the last edge.                                                 *)
PopRun == infer_paths(StartMachine)

\* the state holds the outcome of the completed inference ref
SameOutcome(ref) ==
    /\ ref.pc = "returned"
    /\ node_ann.path_pref = ref.node_ann.path_pref
    /\ node_ann.path_len = ref.node_ann.path_len
    /\ \A a \in ASNs :
           SameMultiset(node_ann.best_paths[a], ref.node_ann.best_paths[a])

C4_TieOrderIndependence == Completed => SameOutcome(PopRun)

\* a completed inference that visited the edges in another order than the
\* popping one and stored an AS's tied paths in another order
C4_Witness ==
    /\ Completed
    /\ get_policy = "random"
    /\ events # PopRun.events
    /\ \E a \in ASNs : node_ann.best_paths[a] # PopRun.node_ann.best_paths[a]

----------------------------------------------------------------------------
(* C5: in every state of an inference and in the returned state, every     *)
(* announcement source s has path_pref[s] = UNKNOWN and no best paths.     *)
C5_SourceExclusion ==
    Inferring =>
        \A s \in Sources(announce) :
            node_ann.path_pref[s] = UNKNOWN /\ node_ann.best_paths[s] = <<>>

\* AS 1 is a provider of AS 2 and both announce
C5_FailingInput ==
    /\ graph = add_peering(EmptyGraph, 1, 2, P2C)
    /\ announce = make_anycast_announcement(graph, {1, 2})

\* on that input each source ends with the other one as its best path
C5_Divergence ==
    C5_FailingInput /\ Completed =>
        /\ node_ann.path_pref[1] = CUSTOMER /\ node_ann.best_paths[1] = << <<2>> >>
        /\ node_ann.path_pref[2] = PROVIDER /\ node_ann.best_paths[2] = << <<1>> >>

----------------------------------------------------------------------------
(* C6: in every state of an inference, for every AS a and every path p of  *)
(* best_paths[a], a followed by p is a valley-free path of the graph.      *)
C6_ValleyFree ==
    Inferring => \A a \in ASNs : \A p \in Stored(a) : ValleyFreeFrom(a, p)

\* AS 3 and AS 4 are providers of AS 1, which announces to AS 3 with the
\* suffix <<4>>
C6_FailingInput ==
    /\ graph = add_peering(add_peering(EmptyGraph, 1, 3, C2P), 1, 4, C2P)
    /\ announce = (1 :> ((3 :> <<4>>) @@ (4 :> <<>>)))

\* on that input AS 3 stores <<1, 4>>: from AS 3 down to its customer AS 1
\* and up again to AS 4
C6_Divergence ==
    C6_FailingInput /\ Completed =>
        /\ node_ann.best_paths[3] = << <<1, 4>> >>
        /\ ~path_is_valley_free(graph, <<3, 1, 4>>)

----------------------------------------------------------------------------
(* C7: in every state of an inference, for every AS a and every path p of  *)
(* best_paths[a], a does not occur in p.                                   *)
C7_LoopFree ==
    \A a \in ASNs : \A p \in Stored(a) : ~InSeq(a, p)

\* AS 4, named in the suffix AS 1 announces to AS 3, was visited from AS 3
\* which holds the path <<1, 4>>
C7_Witness ==
    /\ 4 \notin Sources(announce)
    /\ <<1, 4>> \in Stored(3)
    /\ \E i \in 1..Len(events) :
           events[i].kind = "VISIT_EDGE" /\ events[i].a = 3 /\ events[i].b = 4

----------------------------------------------------------------------------
(* C8: in every state of an inference, every AS a with path_pref[a] other  *)
(* than UNKNOWN has path_len[a] defined and best_paths[a] non-empty, and   *)
(* every path of best_paths[a] has length path_len[a].                     *)
C8_UniformLength ==
    \A a \in ASNs :
        node_ann.path_pref[a] # UNKNOWN =>
            /\ a \in DOMAIN node_ann.path_len
            /\ node_ann.best_paths[a] # <<>>
            /\ \A p \in Stored(a) : Len(p) = node_ann.path_len[a]

\* an AS that holds paths was visited from a neighbour of the same
\* preference whose paths are longer than the ones it holds
C8_Witness ==
    \E i \in 1..Len(events) :
        /\ events[i].kind = "VISIT_EDGE"
        /\ pc \in {"drain", "returned"}
        /\ LET b == events[i].a
               a == events[i].b
           IN  /\ a \notin Sources(announce)
               /\ node_ann.path_pref[a] = events[i].pref
               /\ node_ann.path_pref[b] # UNKNOWN
               /\ \E p \in Stored(b) : ~InSeq(a, p)
               /\ node_ann.path_len[b] + 1 > node_ann.path_len[a]

----------------------------------------------------------------------------
(* C9: no step of an inference lowers path_pref[a], for any AS a.          *)
C9_MonotonicPref ==
    [][\A a \in ASNs : node_ann'.path_pref[a] >= node_ann.path_pref[a]]_vars

\* an AS that holds paths was visited in a later phase, with a lower
\* preference than the one it holds, from a neighbour that exports to it
C9_Witness ==
    \E i \in 1..Len(events) :
        /\ events[i].kind = "VISIT_EDGE"
        /\ LET b == events[i].a
               a == events[i].b
           IN  /\ a \notin Sources(announce)
               /\ events[i].pref < node_ann.path_pref[a]
               /\ \E p \in Stored(b) : ~InSeq(a, p)

----------------------------------------------------------------------------
(* C10: infer_paths raises a ValueError before it fires a callback or      *)
(* runs a phase if and only if the announcement has a source that is not   *)
(* a node of the graph, or a (source, neighbour) pair that is not an edge  *)
(* of the graph, or a neighbour that occurs in its own suffix.             *)
InvalidAnnouncement ==
    \E s \in Sources(announce) :
        \/ s \notin graph.nodes
        \/ \E n \in DOMAIN announce[s] :
               <<s, n>> \notin DOMAIN graph.rel \/ InSeq(n, announce[s][n])

FailedOnEntry ==
    /\ pc = "raised"
    /\ error \in {"ValueError: Source not in ASGraph",
                  "ValueError: Peering not in ASGraph",
                  "ValueError: Neighbor poisoned in announcement"}
    /\ events = <<>>
    /\ node_ann = EmptyNodeAnn
    /\ workqueue = EmptyWorkQueue

C10_AnnouncementValidation ==
    pc # "start" => (FailedOnEntry <=> InvalidAnnouncement)

\* infer_paths raised for an announcement whose sources and peerings are in
\* the graph and whose only fault is a neighbour in its own suffix
C10_Witness ==
    /\ FailedOnEntry
    /\ error = "ValueError: Neighbor poisoned in announcement"
    /\ \A s \in Sources(announce) :
           s \in graph.nodes /\ \A n \in DOMAIN announce[s] : <<s, n>> \in DOMAIN graph.rel

----------------------------------------------------------------------------
(* C11: under SpecReuse, a call of infer_paths whose announcement fails    *)
(* check_announcement raises and changes nothing: the graph, the           *)
(* announcement remembered by the graph and the work queue are as before   *)
(* the call, no callback has fired and no state object is made.            *)
C11_NoPartialResult ==
    [][(pc = "start" /\ check_announcement(graph, announce) # "") =>
          /\ pc' = "raised"
          /\ graph' = graph
          /\ self_announce' = self_announce
          /\ workqueue' = workqueue
          /\ node_ann' = node_ann
          /\ events' = events]_vars

\* the second call on a graph failed validation: the graph remembers the
\* announcement of the first call and its work queue holds edges of it
C11_Witness ==
    /\ calls = 2
    /\ pc = "raised"
    /\ error = "ValueError: Source not in ASGraph"
    /\ self_announce # <<>>
    /\ self_announce[1] # announce
    /\ \E p \in PrefKeys : workqueue[p] # <<>>

----------------------------------------------------------------------------
(* C12: under SpecReuse, a second call of infer_paths on an ASGraph ends   *)
(* as the same call on a new ASGraph with the same peerings and filters    *)
(* does: it returns or raises alike, and a returned state holds the same   *)
(* path_pref, path_len and best_paths.                                     *)
FreshRun == infer_paths(StartMachine)

C12_NoCarryOver ==
    (calls = 2 /\ pc \in {"returned", "raised"}) =>
        /\ FreshRun.pc = pc
        /\ pc = "returned" => SameOutcome(FreshRun)

\* AS 1 is a provider of AS 4, AS 4 a provider of AS 2 and AS 3; the first
\* call stops early at AS 4, the second has no stop target
C12_FailingInput ==
    /\ graph = add_peering(add_peering(add_peering(EmptyGraph, 1, 4, P2C),
                                       2, 4, C2P), 3, 4, C2P)
    /\ announce = make_anycast_announcement(graph, {1})
    /\ calls = 2
    /\ stop_at_target_asn = {}

\* the edge (4, 2) the first call left in the work queue is visited by the
\* second call as well, and AS 2 holds the path <<4, 1>> twice
C12_Divergence ==
    C12_FailingInput /\ pc = "returned" =>
        \/ /\ node_ann.best_paths[2] = << <<4, 1>>, <<4, 1>> >>
           /\ FreshRun.node_ann.best_paths[2] = << <<4, 1>> >>
        \/ SameOutcome(FreshRun)

----------------------------------------------------------------------------
(* C13: under SpecLive every call of infer_paths ends, by a return or by   *)
(* an exception; when it returns without an early stop, the drain loop of  *)
(* each phase has found its bucket empty and the work queue is empty.      *)
Terminated == pc \in {"returned", "raised"}

RECURSIVE SumOver(_, _)
SumOver(S, f) ==
    IF S = {} THEN 0
    ELSE LET x == CHOOSE y \in S : TRUE IN f[x] + SumOver(S \ {x}, f)

\* the edges in the work queue, and the edges add_work may still enqueue:
\* the peerings of the ASes that hold no path
QueuedEdges ==
    SumOver(PrefKeys, [p \in PrefKeys |->
        SumOver(DOMAIN workqueue[p], [d \in DOMAIN workqueue[p] |-> Len(workqueue[p][d])])])

PendingEdges ==
    SumOver(graph.nodes, [a \in graph.nodes |->
        IF node_ann.path_pref[a] = UNKNOWN THEN Len(graph.adj[a]) ELSE 0])

\* what is left of a call of infer_paths: the phases, the stage of the
\* phase, the seeds, the edges, and the edge in hand
TerminationMeasure ==
    IF Terminated THEN <<0, 0, 0, 0, 0>>
    ELSE IF pc = "start" THEN <<5, 0, 0, 0, 0>>
    ELSE <<4 - phase,
           IF pc = "phase" THEN 2 ELSE IF pc = "seeding" THEN 1 ELSE 0,
           Len(seeds),
           QueuedEdges + PendingEdges,
           IF edge = <<>> THEN 0 ELSE 1>>

LexLess(s, t) ==
    \E i \in 1..Len(s) : s[i] < t[i] /\ \A j \in 1..(i - 1) : s[j] = t[j]

\* C13, over the inputs of Spec: every step of infer_paths lowers the
\* measure, which is bounded below
C13_MeasureDecreases ==
    [][LexLess(TerminationMeasure', TerminationMeasure)]_vars

----------------------------------------------------------------------------
(* C14: in the seeding of a phase only the announcement entries whose      *)
(* suffix is the shortest among the entries of the phase for the same      *)
(* neighbour are passed to update_paths, and an entry (s, n, suffix) next  *)
(* to a shorter one of the same preference puts no path in best_paths[n]   *)
(* and no path through n and s with that suffix in any best_paths.         *)
EntryPref(s, n) == from_relationship(graph, s, n)

\* the entry (s, n) has a longer suffix than another entry for n of the
\* same preference
Dropped(s, n) ==
    \E s2 \in Sources(announce) :
        /\ n \in DOMAIN announce[s2]
        /\ EntryPref(s2, n) = EntryPref(s, n)
        /\ Len(announce[s2][n]) < Len(announce[s][n])

IsSuffixOf(t, p) ==
    Len(t) <= Len(p) /\ SubSeq(p, Len(p) - Len(t) + 1, Len(p)) = t

C14_SeedingLengthFilter ==
    Inferring =>
        /\ \A i \in 1..Len(seeds) :
               /\ EntryPref(seeds[i][1], seeds[i][2]) = Phases[phase]
               /\ ~Dropped(seeds[i][1], seeds[i][2])
        /\ \A s \in Sources(announce) : \A n \in DOMAIN announce[s] :
               Dropped(s, n) =>
                   \A a \in ASNs : \A p \in Stored(a) :
                       /\ a = n => p # <<s>> \o announce[s][n]
                       /\ ~IsSuffixOf(<<n, s>> \o announce[s][n], p)

\* AS 1 prepends towards AS 3 and AS 2 does not: AS 3 holds the path of
\* AS 2 only and has exported it
C14_Witness ==
    /\ Completed
    /\ 1 \in Sources(announce)
    /\ 3 \in DOMAIN announce[1]
    /\ Dropped(1, 3)
    /\ announce[1][3] = <<1>>
    /\ node_ann.best_paths[3] = << <<2>> >>
    /\ \E a \in ASNs : <<3, 2>> \in Stored(a)

----------------------------------------------------------------------------
(* C15: in every state, every path stored at an AS that has an import      *)
(* filter is one the filter returns; and at every AS a that no entry of    *)
(* the announcement names as neighbour, every stored path is <<b>> \o p    *)
(* for a neighbour b of a with p in best_paths[b], and path_pref[b] is     *)
(* CUSTOMER or path_pref[a] is PROVIDER.                                   *)
Seeded(a) == \E s \in Sources(announce) : a \in DOMAIN announce[s]

PassesFilter(a, p) ==
    \A f \in graph.import_filter[a] : check_origin(p[1], <<p>>, f.data) = <<p>>

C15_ImportFiltering ==
    \A a \in graph.nodes : \A q \in Stored(a) :
        /\ PassesFilter(a, q)
        /\ ~Seeded(a) =>
               /\ <<q[1], a>> \in DOMAIN graph.rel
               /\ Tail(q) \in Stored(q[1])
               /\ node_ann.path_pref[q[1]] = CUSTOMER \/ node_ann.path_pref[a] = PROVIDER

\* AS 3 filters on the origin AS 1 and is announced to by AS 1 and AS 2 with
\* the same preference: it holds the path of AS 1 only, and AS 4 behind it
\* holds the path through AS 3 to AS 1 and none to AS 2
C15_Witness ==
    /\ Completed
    /\ {3, 4} \subseteq graph.nodes
    /\ graph.import_filter[3] # {}
    /\ Sources(announce) = {1, 2}
    /\ 3 \in DOMAIN announce[1] /\ 3 \in DOMAIN announce[2]
    /\ announce[1][3] = <<>>
    /\ EntryPref(1, 3) = EntryPref(2, 3)
    /\ node_ann.best_paths[3] = << <<1>> >>
    /\ ~Seeded(4)
    /\ node_ann.best_paths[4] = << <<3, 1>> >>

----------------------------------------------------------------------------
(* C16: once the break of the early stop is taken, infer_paths fires no    *)
(* callback and changes no path_pref, path_len or best_paths any more.     *)
C16_EarlyStopReturnsAtOnce ==
    [][early_stop => (events' = events /\ node_ann' = node_ann)]_vars

\* AS 1 is a customer of AS 4 and a provider of AS 3, AS 4 is a customer of
\* AS 2; AS 1 announces and the inference is to stop at the first path of
\* AS 4
C16_FailingInput ==
    /\ graph = add_peering(add_peering(add_peering(EmptyGraph, 1, 3, P2C),
                                       1, 4, C2P), 2, 4, P2C)
    /\ announce = make_anycast_announcement(graph, {1})
    /\ stop_at_target_asn = {4}
    /\ stop_at_target_count = 0
    /\ calls = 1

\* the break is taken in the CUSTOMER phase at the edge (4, 2); the PEER
\* and PROVIDER phases are started all the same, and the seeding of the
\* PROVIDER phase gives AS 3 the path <<1>>
C16_Divergence ==
    C16_FailingInput /\ pc = "returned" =>
        /\ early_stop
        /\ events = <<Event("START_RELATIONSHIP_PHASE", 0, 0, CUSTOMER, <<>>),
                      Event("NEIGHBOR_ANNOUNCE", 1, 4, CUSTOMER, <<>>),
                      Event("START_RELATIONSHIP_PHASE", 0, 0, PEER, <<>>),
                      Event("START_RELATIONSHIP_PHASE", 0, 0, PROVIDER, <<>>),
                      Event("NEIGHBOR_ANNOUNCE", 1, 3, PROVIDER, <<>>)>>
        /\ node_ann.best_paths[3] = << <<1>> >>
        /\ node_ann.path_pref[3] = PROVIDER
        /\ node_ann.best_paths[2] = <<>>

----------------------------------------------------------------------------
(* C17: when infer_paths returns after an early stop, every AS that holds  *)
(* a preference holds the path_pref and path_len of the inference of the   *)
(* same graph and announcement without stop target, and its best_paths     *)
(* are among those of that inference.                                      *)
FullRun == infer_paths_no_stop(StartMachine)

\* the state agrees with the completed inference ref wherever it holds paths
PartOf(ref) ==
    \A a \in ASNs :
        node_ann.path_pref[a] # UNKNOWN =>
            /\ node_ann.path_pref[a] = ref.node_ann.path_pref[a]
            /\ node_ann.path_len[a] = ref.node_ann.path_len[a]
            /\ Stored(a) \subseteq Range(ref.node_ann.best_paths[a])

C17_EarlyStopNeverIncorrect ==
    (pc = "returned" /\ early_stop) => PartOf(FullRun)

\* AS 1 is a customer of AS 4 and a provider of AS 3, AS 3 is a provider of
\* AS 4; AS 1 announces and the inference is to stop at the first path of
\* AS 4
C17_FailingInput ==
    /\ graph = add_peering(add_peering(add_peering(EmptyGraph, 1, 3, P2C),
                                       1, 4, C2P), 3, 4, P2C)
    /\ announce = make_anycast_announcement(graph, {1})
    /\ stop_at_target_asn = {4}
    /\ stop_at_target_count = 0
    /\ calls = 1

\* the break is taken at the edge (4, 3) of the CUSTOMER phase, and the
\* seeding of the PROVIDER phase gives AS 3 the provider path <<1>>; without
\* stop target AS 3 holds the customer path <<4, 1>>
C17_Divergence ==
    C17_FailingInput /\ pc = "returned" =>
        /\ early_stop
        /\ node_ann.path_pref[3] = PROVIDER
        /\ node_ann.best_paths[3] = << <<1>> >>
        /\ FullRun.node_ann.path_pref[3] = CUSTOMER
        /\ FullRun.node_ann.best_paths[3] = << <<4, 1>> >>

\* up to the break the state is part of the inference without stop target
C17_UntilBreak ==
    (stop_at_target_asn # {} /\ Inferring /\ ~early_stop /\ pc # "raised"
        /\ FullRun.pc = "returned") => PartOf(FullRun)

----------------------------------------------------------------------------
(* C18: with a stop target and a stop_at_target_count of at least one, no  *)
(* edge is visited once best_paths[stop_at_target_asn] holds               *)
(* stop_at_target_count paths.                                             *)
TargetReached ==
    /\ stop_at_target_asn # {}
    /\ stop_at_target_count >= 1
    /\ \A t \in stop_at_target_asn :
           Len(node_ann.best_paths[t]) >= stop_at_target_count

C18_EarlyStopCount ==
    [][TargetReached =>
          \A i \in (Len(events) + 1)..Len(events') :
              events'[i].kind # "VISIT_EDGE"]_vars

\* AS 1 is a customer of AS 4 and AS 4 a customer of AS 2; AS 1 announces
\* and the inference is to stop at one path of AS 4
C18_FailingInput ==
    /\ graph = add_peering(add_peering(EmptyGraph, 1, 4, C2P), 2, 4, P2C)
    /\ announce = make_anycast_announcement(graph, {1})
    /\ stop_at_target_asn = {4}
    /\ stop_at_target_count = 1
    /\ calls = 1

\* AS 4 holds its one path after the seeding; the edge (4, 2) is visited
\* all the same, AS 2 gets a path, and the break is never taken
C18_Divergence ==
    C18_FailingInput /\ pc = "returned" =>
        /\ ~early_stop
        /\ node_ann.best_paths[4] = << <<1>> >>
        /\ InSeq(Event("VISIT_EDGE", 4, 2, CUSTOMER, <<>>), events)
        /\ node_ann.best_paths[2] = << <<4, 1>> >>

----------------------------------------------------------------------------
(* C19: under SpecInitial, when initial_node_announcement_data is passed,  *)
(* the state infer_paths returns holds the preferences and the paths       *)
(* programmed into it.                                                     *)
C19_InitialStateAdopted ==
    (pc = "returned" /\ initial_node_announcement_data # <<>>) =>
        \A a \in ASNs :
            LET given == initial_node_announcement_data[1]
            IN  given.path_pref[a] # UNKNOWN =>
                    /\ node_ann.path_pref[a] = given.path_pref[a]
                    /\ Range(given.best_paths[a]) \subseteq Stored(a)

\* AS 1 is a provider of AS 2 and announces; the caller passes a state in
\* which AS 5 holds the path <<1>>
C19_FailingInput ==
    /\ graph = add_peering(EmptyGraph, 1, 2, P2C)
    /\ announce = make_anycast_announcement(graph, {1})
    /\ initial_node_announcement_data = <<Programmed(5)>>

\* the state returned is the one of a call without the parameter: AS 5
\* holds nothing
C19_Divergence ==
    C19_FailingInput /\ pc = "returned" =>
        /\ node_ann.path_pref[5] = UNKNOWN
        /\ node_ann.best_paths[5] = <<>>
        /\ node_ann = FreshRun.node_ann

----------------------------------------------------------------------------
(* C20: in an inference that runs to completion START_RELATIONSHIP_PHASE   *)
(* fires three times, for CUSTOMER, PEER and PROVIDER in this order; every *)
(* NEIGHBOR_ANNOUNCE and VISIT_EDGE of preference P fires after            *)
(* START_RELATIONSHIP_PHASE(P) and before the next START_RELATIONSHIP_     *)
(* PHASE, and within a phase every NEIGHBOR_ANNOUNCE precedes every        *)
(* VISIT_EDGE.                                                             *)
IsStart(e) == e.kind = "START_RELATIONSHIP_PHASE"

\* the index of the last START_RELATIONSHIP_PHASE before event i, 0 if none
LastStartBefore(i) ==
    Max({0} \cup {j \in 1..(i - 1) : IsStart(events[j])})

C20_PhaseOrdering ==
    Completed =>
        /\ LET starts == SelectSeq(events, IsStart)
           IN  [i \in 1..Len(starts) |-> starts[i].pref] = <<CUSTOMER, PEER, PROVIDER>>
        /\ \A i \in 1..Len(events) :
               ~IsStart(events[i]) =>
                   /\ LastStartBefore(i) # 0
                   /\ events[LastStartBefore(i)].pref = events[i].pref
        /\ \A i, j \in 1..Len(events) :
               (i < j /\ events[i].kind = "VISIT_EDGE"
                      /\ events[j].kind = "NEIGHBOR_ANNOUNCE") =>
                   LastStartBefore(i) # LastStartBefore(j)

\* a completed inference with announcements and visits in two phases
C20_Witness ==
    /\ Completed
    /\ \E p, q \in PrefKeys :
        /\ p # q
        /\ \A r \in {p, q} : \A k \in {"NEIGHBOR_ANNOUNCE", "VISIT_EDGE"} :
               \E i \in 1..Len(events) : events[i].kind = k /\ events[i].pref = r

----------------------------------------------------------------------------
(* C21: infer_paths (validation, seeding, draining) leaves the graph's     *)
(* node set, edge set, every edge's relationship tag and every node's      *)
(* import filter unchanged.                                                *)
C21_GraphImmutable ==
    [][/\ graph'.nodes = graph.nodes
       /\ graph'.adj = graph.adj
       /\ DOMAIN graph'.rel = DOMAIN graph.rel
       /\ \A e \in DOMAIN graph.rel : graph'.rel[e] = graph.rel[e]
       /\ \A n \in graph.nodes : graph'.import_filter[n] = graph.import_filter[n]]_vars

\* an inference that has seeded, drained and returned on a graph with an
\* import filter
C21_Witness ==
    /\ Completed
    /\ \E n \in graph.nodes : graph.import_filter[n] # {}
    /\ \E i \in 1..Len(events) : events[i].kind = "VISIT_EDGE"
    /\ \E a \in graph.nodes \ Sources(announce) : node_ann.best_paths[a] # <<>>

----------------------------------------------------------------------------
(* C22: after any sequence of add_peering calls on distinct endpoints, for *)
(* every directed edge a->b with tag r the edge b->a exists with the       *)
(* opposite tag (P2C for C2P, C2P for P2C, P2P for P2P); add_peering       *)
(* creates missing nodes with no import filter and leaves the import       *)
(* filter of an existing node unchanged.                                   *)
C22_ReciprocalEdges ==
    /\ [](\A e \in DOMAIN graph.rel :
            LET back == <<e[2], e[1]>>
            IN  /\ back \in DOMAIN graph.rel
                /\ graph.rel[e] = P2C => graph.rel[back] = C2P
                /\ graph.rel[e] = C2P => graph.rel[back] = P2C
                /\ graph.rel[e] = P2P => graph.rel[back] = P2P
                /\ {e[1], e[2]} \subseteq graph.nodes
                /\ InSeq(e[2], graph.adj[e[1]]))
    /\ [][(graph'.rel # graph.rel \/ graph'.nodes # graph.nodes) =>
            \A n \in graph'.nodes :
                graph'.import_filter[n] =
                    IF n \in graph.nodes THEN graph.import_filter[n] ELSE {}]_vars

\* a graph of three peerings with the three tags, where an AS has an import
\* filter
C22_Witness ==
    /\ pc = "build"
    /\ Cardinality(DOMAIN graph.rel) = 6
    /\ {graph.rel[e] : e \in DOMAIN graph.rel} = Relationships
    /\ \E n \in graph.nodes : graph.import_filter[n] # {}

----------------------------------------------------------------------------
(* C23: make_anycast_announcement(graph, sources) returns the mapping      *)
(* whose keys are the given sources and where each source maps every       *)
(* neighbour it has in the graph, and nothing else, to the empty suffix;   *)
(* it does not change the graph, building it again over the same sources   *)
(* gives an equal announcement, and the result passes check_announcement.  *)
C23_AnycastBuilder ==
    /\ [](pc = "start" =>
            /\ Sources(announce) = Range(anycast_sources)
            /\ \A s \in Sources(announce) :
                /\ DOMAIN announce[s] = {n \in graph.nodes : <<s, n>> \in DOMAIN graph.rel}
                /\ \A n \in DOMAIN announce[s] : announce[s][n] = <<>>
            /\ make_anycast_announcement(graph, Range(anycast_sources)) = announce
            /\ check_announcement(graph, announce) = "")
    /\ [][pc = "build" /\ pc' = "start" => graph' = graph]_vars

\* an announcement built for two sources, one of them with two neighbours
C23_Witness ==
    /\ pc = "start"
    /\ Cardinality(Range(anycast_sources)) = 2
    /\ \E s \in Sources(announce) : Cardinality(DOMAIN announce[s]) = 2
    /\ \E s \in Sources(announce) : Cardinality(DOMAIN announce[s]) = 1

----------------------------------------------------------------------------
(* C24: reversed maps P2C to C2P, C2P to P2C and P2P to P2P, and           *)
(* reversed(reversed(rel)) = rel for every relationship rel; stated for    *)
(* the relationships add_peering has been called with.                     *)
C24_Reversal ==
    \A e \in DOMAIN graph.rel :
        LET rel == graph.rel[e]
        IN  /\ rel = P2C => reversed(rel) = C2P
            /\ rel = C2P => reversed(rel) = P2C
            /\ rel = P2P => reversed(rel) = P2P
            /\ reversed(rel) \in Relationships
            /\ reversed(reversed(rel)) = rel

\* add_peering has been called with each of the three relationships
C24_Witness ==
    /\ pc = "build"
    /\ \E a, b, c \in graph.nodes :
        /\ <<a, b>> \in DOMAIN graph.rel /\ graph.rel[<<a, b>>] = P2C
        /\ <<b, c>> \in DOMAIN graph.rel /\ graph.rel[<<b, c>>] = P2P
        /\ <<c, a>> \in DOMAIN graph.rel /\ graph.rel[<<c, a>>] = C2P

----------------------------------------------------------------------------
(* C25: for every edge built by add_peering, from_relationship(graph,      *)
(* exporter, importer) is PROVIDER when the tag of exporter->importer is   *)
(* P2C, PEER when it is P2P and CUSTOMER when it is C2P; hence it is       *)
(* CUSTOMER in one direction iff it is PROVIDER in the other, PEER in one  *)
(* iff PEER in the other, and it is never UNKNOWN.                         *)
C25_EdgePreference ==
    \A e \in DOMAIN graph.rel :
        LET exporter == e[1]
            importer == e[2]
            there == from_relationship(graph, exporter, importer)
            back == from_relationship(graph, importer, exporter)
        IN  /\ graph.rel[e] = P2C => there = PROVIDER
            /\ graph.rel[e] = P2P => there = PEER
            /\ graph.rel[e] = C2P => there = CUSTOMER
            /\ there = CUSTOMER <=> back = PROVIDER
            /\ there = PEER <=> back = PEER
            /\ there # UNKNOWN

\* a graph on three ASes whose edges have the three preferences
C25_Witness ==
    /\ pc = "build"
    /\ graph.nodes = BuildASNs
    /\ {from_relationship(graph, e[1], e[2]) : e \in DOMAIN graph.rel} = PrefKeys

----------------------------------------------------------------------------
(* C26: in every inference on a validated announcement, prepended or       *)
(* poisoned suffixes included, the candidate paths update_paths gets for   *)
(* an importer that holds paths of the same preference are never shorter   *)
(* than path_len[importer]: the assertion new_path_len >= current_path_len *)
(* never fails.                                                            *)
C26_LengthAssertionUnreachable ==
    error # "AssertionError: new_path_len >= current_path_len"

\* AS 1 is a customer of AS 2 and of AS 3, AS 2 is a customer of AS 3; AS 1
\* announces to AS 2 without prepending and to AS 3 with itself prepended
\* twice
C26_FailingInput ==
    /\ graph = add_peering(add_peering(add_peering(EmptyGraph, 1, 2, C2P),
                                       1, 3, C2P), 2, 3, C2P)
    /\ announce = (1 :> ((2 :> <<>>) @@ (3 :> <<1, 1>>)))
    /\ stop_at_target_asn = {}

\* on that input AS 3 is seeded with <<1, 1, 1>> of length 3 and is then
\* offered <<2, 1>> of length 2 by its customer AS 2: the assertion fails
C26_Divergence ==
    pc \in {"returned", "raised"} /\ C26_FailingInput =>
        /\ pc = "raised"
        /\ error = "AssertionError: new_path_len >= current_path_len"
        /\ node_ann.best_paths[3] = << <<1, 1, 1>> >>
        /\ node_ann.best_paths[2] = << <<1>> >>

----------------------------------------------------------------------------
(* C27: update_paths is never called with an importer whose current        *)
(* preference is not UNKNOWN and is strictly lower than the preference of  *)
(* the edge exporter->importer: the assertion at the entry of update_paths *)
(* never fails, in seeding or in draining.                                 *)
\* the call update_paths(node_ann, exporter, importer) the next step makes
\* finds the importer with a known preference lower than that of the edge
LowerPrefAt(exporter, importer) ==
    /\ node_ann.path_pref[importer] # UNKNOWN
    /\ node_ann.path_pref[importer] < from_relationship(graph, exporter, importer)

C27_PrefAssertionUnreachable ==
    /\ error # "AssertionError: current_pref >= new_pref"
    /\ pc = "seeding" /\ seeds # <<>> => ~LowerPrefAt(Head(seeds)[1], Head(seeds)[2])
    /\ (pc = "drain" /\ edge # <<>> /\ edge[2] \notin Sources(announce)) =>
           ~LowerPrefAt(edge[1], edge[2])

\* update_paths has been called, from seeding and from draining, for
\* importers that held a path of a higher preference than the edge's
C27_Witness ==
    /\ Completed
    /\ \E i, j \in 1..Len(events) :
        /\ events[i].kind = "VISIT_EDGE"
        /\ events[i].b \notin Sources(announce)
        /\ node_ann.path_pref[events[i].b] > events[i].pref
        /\ events[j].kind = "NEIGHBOR_ANNOUNCE"
        /\ node_ann.path_pref[events[j].b] > events[j].pref

----------------------------------------------------------------------------
(* C28: whenever update_paths appends tied paths to an importer that       *)
(* already holds paths, every edge (importer, n) add_work enqueues for the *)
(* importer (path_pref[importer] = CUSTOMER or the preference of           *)
(* importer->n is PROVIDER) is still in the bucket of that preference at   *)
(* depth path_len[importer]: the check_work assertion never fails.         *)
\* the step appends paths to the paths AS a holds
TiesAppendedAt(a) ==
    /\ node_ann.best_paths[a] # <<>>
    /\ Len(node_ann'.best_paths[a]) > Len(node_ann.best_paths[a])

\* the edge (a, n) is in the work queue the call of update_paths works on
StillEnqueued(a, n) ==
    LET bucket == workqueue[PathPrefOf(a, n)]
        depth == node_ann.path_len[a]
    IN  /\ depth \in DOMAIN bucket
        /\ InSeq(<<a, n>>, bucket[depth])

C28_EnqueueInvariant ==
    /\ [](error # "AssertionError: check_work")
    /\ [][\A a \in graph.nodes :
            TiesAppendedAt(a) =>
                \A n \in graph.nodes :
                    (/\ <<a, n>> \in DOMAIN graph.rel
                     /\ \/ node_ann.path_pref[a] = CUSTOMER
                        \/ PathPrefOf(a, n) = PROVIDER)
                    => StillEnqueued(a, n)]_vars

\* an AS holds tied paths from two exporters, the second appended to the
\* first, and exports them to a neighbour
C28_Witness ==
    /\ pc \in {"seeding", "drain", "returned"}
    /\ \E a \in graph.nodes \ Sources(announce) :
        /\ \E i, j \in 1..Len(node_ann.best_paths[a]) :
               node_ann.best_paths[a][i][1] # node_ann.best_paths[a][j][1]
        /\ \E n \in graph.nodes :
            /\ <<a, n>> \in DOMAIN graph.rel
            /\ \/ node_ann.path_pref[a] = CUSTOMER
               \/ PathPrefOf(a, n) = PROVIDER

----------------------------------------------------------------------------
(* C29: add_work(graph, state, exporter) appends, for each neighbour n of  *)
(* the exporter, the edge (exporter, n) to the bucket of the preference of *)
(* exporter->n at depth path_len[exporter] if and only if                  *)
(* path_pref[exporter] = CUSTOMER or that preference is PROVIDER; it adds  *)
(* no other edge and removes none.                                         *)
\* the edges (a, n) of preference p that a exports, in the order of the
\* neighbours of a
ExportedEdges(a, p, na) ==
    LET all == [i \in 1..Len(graph.adj[a]) |-> <<a, graph.adj[a][i]>>]
    IN  SelectSeq(all, LAMBDA e :
            /\ PathPrefOf(e[1], e[2]) = p
            /\ \/ na.path_pref[a] = CUSTOMER
               \/ p = PROVIDER)

\* the work queue wq with the edges a exports appended at depth path_len[a]
WithExportsOf(wq, a, na) ==
    [p \in PrefKeys |->
        LET added == ExportedEdges(a, p, na)
            depths == DOMAIN wq[p] \cup (IF added = <<>> THEN {} ELSE {na.path_len[a]})
        IN  [d \in depths |->
                (IF d \in DOMAIN wq[p] THEN wq[p][d] ELSE <<>>)
                \o (IF d = na.path_len[a] THEN added ELSE <<>>)]]

\* the step installs the first paths of AS a: update_paths returns True and
\* add_work is called for a
FirstPathsAt(a) ==
    /\ node_ann.path_pref[a] = UNKNOWN
    /\ node_ann'.path_pref[a] # UNKNOWN

C29_ExportRule ==
    [][\A a \in graph.nodes :
          FirstPathsAt(a) =>
              LET wq == WithExportsOf(workqueue, a, node_ann')
                  p == Phases[phase]
              IN  /\ IF pc = "seeding" THEN workqueue' = wq
                     ELSE \E i \in 1..GetChoices(wq, p) : workqueue' = get(wq, p, i).wq
                  /\ DOMAIN node_ann'.path_len = DOMAIN node_ann.path_len \cup {a}
                  /\ node_ann'.path_len[a] = Len(node_ann'.best_paths[a][1])
                  /\ \A b \in ASNs \ {a} :
                      /\ node_ann'.path_pref[b] = node_ann.path_pref[b]
                      /\ node_ann'.best_paths[b] = node_ann.best_paths[b]
                      /\ b \in DOMAIN node_ann.path_len =>
                             node_ann'.path_len[b] = node_ann.path_len[b]]_vars

\* add_work has enqueued edges in two buckets for an AS with a path from a
\* customer, and an edge to a provider only for an AS with a path from a
\* provider or a peer
C29_Witness ==
    /\ \E a \in graph.nodes :
        /\ node_ann.path_pref[a] = CUSTOMER
        /\ \E p, q \in PrefKeys :
            /\ p # q
            /\ node_ann.path_len[a] \in DOMAIN workqueue[p]
            /\ node_ann.path_len[a] \in DOMAIN workqueue[q]
            /\ \E n \in graph.nodes : InSeq(<<a, n>>, workqueue[p][node_ann.path_len[a]])
            /\ \E n \in graph.nodes : InSeq(<<a, n>>, workqueue[q][node_ann.path_len[a]])
    /\ \E a \in graph.nodes :
        /\ node_ann.path_pref[a] \in {PEER, PROVIDER}
        /\ \E n \in graph.nodes : <<a, n>> \in DOMAIN graph.rel /\ PathPrefOf(a, n) # PROVIDER

----------------------------------------------------------------------------
(* C30: get(pref) returns None if and only if bucket pref is empty;        *)
(* otherwise it removes and returns exactly one edge stored at the         *)
(* smallest depth of bucket pref, erases that depth when its collection    *)
(* becomes empty, and leaves the other two buckets and all other depths    *)
(* unchanged; no depth with an empty collection is retained.               *)
\* the step is a call of get(pref) and nothing else: the first get of a
\* phase, or the get that follows a visit that enqueues nothing
OnlyGet ==
    \/ pc = "seeding" /\ seeds = <<>>
    \/ /\ pc = "drain" /\ edge # <<>> /\ pc' = "drain"
       /\ node_ann'.path_pref = node_ann.path_pref

C30_Pop ==
    /\ [](\A p \in PrefKeys : \A d \in DOMAIN workqueue[p] : workqueue[p][d] # <<>>)
    /\ [][OnlyGet =>
            LET pref == Phases[phase]
                bucket == workqueue[pref]
            IN  /\ edge' = <<>> <=> DOMAIN bucket = {}
                /\ \A q \in PrefKeys \ {pref} : workqueue'[q] = workqueue[q]
                /\ DOMAIN bucket = {} => workqueue'[pref] = bucket
                /\ DOMAIN bucket # {} =>
                       LET depth == CHOOSE d \in DOMAIN bucket :
                                        \A e \in DOMAIN bucket : d <= e
                       IN  /\ \A e \in DOMAIN bucket \ {depth} :
                                  e \in DOMAIN workqueue'[pref]
                                  /\ workqueue'[pref][e] = bucket[e]
                           /\ DOMAIN workqueue'[pref] \subseteq DOMAIN bucket
                           /\ depth \in DOMAIN workqueue'[pref] <=> Len(bucket[depth]) > 1
                           /\ \E i \in 1..Len(bucket[depth]) :
                                  /\ edge' = bucket[depth][i]
                                  /\ depth \in DOMAIN workqueue'[pref] =>
                                         workqueue'[pref][depth] =
                                             [k \in 1..(Len(bucket[depth]) - 1) |->
                                                 IF k < i THEN bucket[depth][k]
                                                 ELSE bucket[depth][k + 1]]]_vars

\* get has returned an edge of the smallest depth of a bucket that holds a
\* greater depth too, while another bucket holds edges
C30_Witness ==
    /\ pc = "drain"
    /\ edge # <<>>
    /\ \E d \in DOMAIN workqueue[Phases[phase]] : d > node_ann.path_len[edge[1]]
    /\ \E q \in PrefKeys \ {Phases[phase]} : DOMAIN workqueue[q] # {}

----------------------------------------------------------------------------
(* C31: within one inference update_paths returns first-time at most once  *)
(* per AS and add_work is called at most once per AS, so every directed    *)
(* edge is enqueued at most once and VISIT_EDGE fires at most once per     *)
(* directed edge; path_len[a] is never changed after it is first set.      *)
\* how often the edge e is in the work queue, is the edge just popped, or
\* has been visited
RECURSIVE CountIn(_, _)
CountIn(e, s) ==
    IF s = <<>> THEN 0
    ELSE (IF Head(s) = e THEN 1 ELSE 0) + CountIn(e, Tail(s))

Occurrences(e) ==
    LET queued == {<<p, d>> \in PrefKeys \X (0..(2 * Cardinality(ASNs))) :
                       d \in DOMAIN workqueue[p] /\ InSeq(e, workqueue[p][d])}
        visited == {i \in 1..Len(events) :
                       /\ events[i].kind = "VISIT_EDGE"
                       /\ <<events[i].a, events[i].b>> = e}
    IN  [queued |-> queued, visited |-> visited,
         popped |-> pc = "drain" /\ edge = e]

C31_EnqueuedOnce ==
    /\ [](\A e \in DOMAIN graph.rel :
            LET o == Occurrences(e)
            IN  /\ Cardinality(o.visited) <= 1
                /\ Cardinality(o.queued) <= 1
                /\ \A q \in o.queued : CountIn(e, workqueue[q[1]][q[2]]) = 1
                /\ Cardinality(o.queued) + Cardinality(o.visited)
                       + (IF o.popped THEN 1 ELSE 0) <= 1)
    /\ [][pc # "start" =>
            \A a \in DOMAIN node_ann.path_len :
                /\ a \in DOMAIN node_ann'.path_len
                /\ node_ann'.path_len[a] = node_ann.path_len[a]
                /\ node_ann'.path_pref[a] # UNKNOWN]_vars

\* a second call of infer_paths on the graph where AS 1 is the provider of
\* AS 4 and AS 4 the provider of AS 2 and AS 3, announced from AS 1
C31_FailingInput ==
    /\ calls = 2
    /\ stop_at_target_asn = {}
    /\ graph = add_peering(add_peering(add_peering(EmptyGraph, 1, 4, P2C),
                                       2, 4, C2P), 3, 4, C2P)
    /\ announce = (1 :> (4 :> <<>>))

\* how often VISIT_EDGE(a, b) has fired
Visits(a, b) ==
    Cardinality({i \in 1..Len(events) :
        events[i].kind = "VISIT_EDGE" /\ events[i].a = a /\ events[i].b = b})

\* when the first call stopped early and left the edge (4, 2) in the
\* PROVIDER bucket, the second call visits (4, 2) twice; otherwise once
C31_Divergence ==
    pc = "returned" /\ C31_FailingInput =>
        \/ Visits(4, 2) = 2 /\ node_ann.best_paths[2] = << <<4, 1>>, <<4, 1>> >>
        \/ Visits(4, 2) = 1 /\ node_ann.best_paths[2] = << <<4, 1>> >>

----------------------------------------------------------------------------
(* C32: in every state reached during an inference, every edge (exporter,  *)
(* importer) held in bucket P at depth d satisfies PathPref(exporter ->    *)
(* importer) = P, path_pref[exporter] # UNKNOWN and path_len[exporter] =   *)
(* d; hence every edge popped in phase P has preference P (the assertion   *)
(* of the drain loop never fails) and the importer's candidate paths have  *)
(* length d + 1.                                                           *)
\* the edge e, held or popped at depth d of bucket p, is consistent with
\* the state
ConsistentEdge(e, p, d) ==
    /\ e \in DOMAIN graph.rel
    /\ PathPrefOf(e[1], e[2]) = p
    /\ node_ann.path_pref[e[1]] # UNKNOWN
    /\ e[1] \in DOMAIN node_ann.path_len
    /\ node_ann.path_len[e[1]] = d
    /\ \A i \in 1..Len(node_ann.best_paths[e[1]]) :
           Len(<<e[1]>> \o node_ann.best_paths[e[1]][i]) = d + 1

C32_WorkQueueConsistency ==
    /\ error # "AssertionError: from_relationship == pref"
    /\ pc \in {"phase", "seeding", "drain"} =>
        /\ \A p \in PrefKeys : \A d \in DOMAIN workqueue[p] :
               \A i \in 1..Len(workqueue[p][d]) :
                   ConsistentEdge(workqueue[p][d][i], p, d)
        /\ (pc = "drain" /\ edge # <<>>) =>
               ConsistentEdge(edge, Phases[phase], node_ann.path_len[edge[1]])

\* the second call of infer_paths on the graph where AS 1 is the provider
\* of AS 4 and AS 4 the provider of AS 2 and AS 3 has passed
\* check_announcement and made its NodeAccouncementData
C32_FailingInput ==
    /\ calls = 2
    /\ pc = "phase"
    /\ phase = 1
    /\ announce = (1 :> (4 :> <<>>))
    /\ graph = add_peering(add_peering(add_peering(EmptyGraph, 1, 4, P2C),
                                       2, 4, C2P), 3, 4, C2P)

\* when the first call stopped early, the PROVIDER bucket holds the edge
\* (4, 2) at depth 1 while AS 4 has neither a preference nor a path_len
C32_Divergence ==
    C32_FailingInput =>
        \/ workqueue = EmptyWorkQueue
        \/ /\ workqueue[PROVIDER] = (1 :> << <<4, 2>> >>)
           /\ node_ann.path_pref[4] = UNKNOWN
           /\ 4 \notin DOMAIN node_ann.path_len

----------------------------------------------------------------------------
(* C33: within each phase the depths of the edges returned by successive   *)
(* pops are non-decreasing, and when an edge (exporter, importer) is       *)
(* popped best_paths[exporter] is final: no path is added to the           *)
(* exporter's paths after one of its outgoing edges has been popped.       *)
\* an outgoing edge of AS a has been popped in this inference
PoppedFrom(a) ==
    \/ pc = "drain" /\ edge # <<>> /\ edge[1] = a
    \/ \E i \in 1..Len(events) : events[i].kind = "VISIT_EDGE" /\ events[i].a = a

C33_ShortestFirst ==
    /\ [][(pc = "drain" /\ edge # <<>> /\ pc' = "drain" /\ edge' # <<>>) =>
            get_depth' >= get_depth]_vars
    /\ [](pc = "drain" /\ edge # <<>> =>
            \A d \in DOMAIN workqueue[Phases[phase]] : d >= get_depth)
    /\ [][(pc # "start") =>
            \A a \in graph.nodes :
                PoppedFrom(a) => node_ann'.best_paths[a] = node_ann.best_paths[a]]_vars

\* in one phase edges have been popped at two depths from a bucket that
\* still holds edges, and an AS whose edge has been popped holds tied paths
C33_Witness ==
    /\ pc = "drain"
    /\ edge # <<>>
    /\ DOMAIN workqueue[Phases[phase]] # {}
    /\ \E i \in 1..Len(events) :
        /\ events[i].kind = "VISIT_EDGE"
        /\ events[i].pref = Phases[phase]
        /\ node_ann.path_len[events[i].a] < get_depth
    /\ \E a \in graph.nodes \ Sources(announce) :
        /\ PoppedFrom(a)
        /\ Len(node_ann.best_paths[a]) >= 2

----------------------------------------------------------------------------
(* C34: in an inference that runs to completion, for every entry (s, n,    *)
(* suffix) of the announcement the callback NEIGHBOR_ANNOUNCE(s, n, P,     *)
(* suffix) fires exactly once, in the phase P = PathPref(s->n), whether or *)
(* not the entry is dropped by the seeding length filter or rejected by    *)
(* update_paths; it fires for nothing else.                                *)
C34_NeighborAnnounce ==
    Completed =>
        LET fired == {i \in 1..Len(events) : events[i].kind = "NEIGHBOR_ANNOUNCE"}
        IN  /\ \A s \in Sources(announce) : \A n \in DOMAIN announce[s] :
                \E i \in fired :
                    /\ events[i] = Event("NEIGHBOR_ANNOUNCE", s, n, PathPrefOf(s, n),
                                         announce[s][n])
                    /\ events[LastStartBefore(i)].pref = PathPrefOf(s, n)
                    /\ \A j \in fired :
                           (events[j].a = s /\ events[j].b = n) => j = i
            /\ \A i \in fired :
                /\ events[i].a \in Sources(announce)
                /\ events[i].b \in DOMAIN announce[events[i].a]

\* a completed inference whose announcement holds an entry the length
\* filter drops and an entry whose neighbour holds a better path
C34_Witness ==
    /\ Completed
    /\ \E s \in Sources(announce) : \E n \in DOMAIN announce[s] : Dropped(s, n)
    /\ \E s \in Sources(announce) : \E n \in DOMAIN announce[s] :
           node_ann.path_pref[n] > PathPrefOf(s, n)

----------------------------------------------------------------------------
(* C35: VISIT_EDGE never fires for an edge whose exporter is an            *)
(* announcement source; and when a popped edge has an announcement source  *)
(* as importer, VISIT_EDGE fires but the step leaves the state and the     *)
(* work queue unchanged apart from the pop.                                *)
C35_SourcesInert ==
    /\ [](\A i \in 1..Len(events) :
            events[i].kind = "VISIT_EDGE" => events[i].a \notin Sources(announce))
    /\ [][(pc = "drain" /\ edge # <<>> /\ pc' = "drain"
              /\ edge[2] \in Sources(announce)) =>
            /\ node_ann' = node_ann
            /\ events' = Append(events, Event("VISIT_EDGE", edge[1], edge[2],
                                              Phases[phase], <<>>))
            /\ \E i \in 1..GetChoices(workqueue, Phases[phase]) :
                   workqueue' = get(workqueue, Phases[phase], i).wq]_vars

\* AS 1 is the provider of AS 2 and a customer of AS 3; AS 1 and AS 2
\* announce to all their neighbours
C35_FailingInput ==
    /\ graph = add_peering(add_peering(EmptyGraph, 1, 2, P2C), 1, 3, C2P)
    /\ announce = (1 :> ((2 :> <<>>) @@ (3 :> <<>>))) @@ (2 :> (1 :> <<>>))
    /\ stop_at_target_asn = {}
    /\ calls = 1

\* the source AS 1 is seeded with the path <<2>> by the source AS 2 and
\* add_work enqueues its edges: VISIT_EDGE fires for (1, 3) and for (1, 2)
C35_Divergence ==
    pc = "returned" /\ C35_FailingInput =>
        /\ node_ann.best_paths[1] = << <<2>> >>
        /\ Visits(1, 3) = 1
        /\ Visits(1, 2) = 1

----------------------------------------------------------------------------
(* C36: when update_paths returns no-change without appending (the         *)
(* importer holds a strictly better preference, the candidates are longer  *)
(* than path_len[importer], the loop filter leaves no candidate, or the    *)
(* import filter empties the candidates), path_pref, path_len and          *)
(* best_paths of every AS and the work queue are unchanged; an AS whose    *)
(* filter emptied the candidates stays UNKNOWN, gets no work enqueued, and *)
(* can still be installed first-time by a later edge.                      *)
\* the candidate paths of exporter for importer that are free of loops and
\* pass the import filter of importer
Candidates(exporter, importer) ==
    LET exported == SelectSeq(node_ann.best_paths[exporter],
                              LAMBDA p : ~InSeq(importer, p))
        new == [i \in 1..Len(exported) |-> <<exporter>> \o exported[i]]
    IN  SelectSeq(new, LAMBDA p : PassesFilter(importer, p))

SeedCandidates(src, nei) ==
    SelectSeq(<< <<src>> \o announce[src][nei] >>, LAMBDA p : PassesFilter(nei, p))

\* a call of update_paths for these candidates finds nothing to install or
\* to append
NoChangeCase(exporter, importer, kept) ==
    \/ node_ann.path_pref[importer] > PathPrefOf(exporter, importer)
    \/ kept = <<>>
    \/ /\ node_ann.path_pref[importer] = PathPrefOf(exporter, importer)
       /\ Len(kept[1]) > node_ann.path_len[importer]

C36_NoChange ==
    /\ [][(/\ pc = "seeding" /\ seeds # <<>> /\ pc' # "raised"
           /\ NoChangeCase(Head(seeds)[1], Head(seeds)[2],
                           SeedCandidates(Head(seeds)[1], Head(seeds)[2]))) =>
            /\ node_ann' = node_ann
            /\ workqueue' = workqueue]_vars
    /\ [][(/\ pc = "drain" /\ edge # <<>> /\ pc' = "drain"
           /\ edge[2] \notin Sources(announce)
           /\ NoChangeCase(edge[1], edge[2], Candidates(edge[1], edge[2]))) =>
            /\ node_ann' = node_ann
            /\ \E i \in 1..GetChoices(workqueue, Phases[phase]) :
                   workqueue' = get(workqueue, Phases[phase], i).wq]_vars

\* AS 3 has an import filter; an edge to AS 3 was visited whose exporter
\* holds only paths the filter rejects, and a later edge installed AS 3
C36_Witness ==
    /\ Completed
    /\ 3 \in graph.nodes
    /\ graph.import_filter[3] # {}
    /\ 3 \notin Sources(announce)
    /\ node_ann.best_paths[3] # <<>>
    /\ \E i, j \in 1..Len(events) :
        /\ i < j
        /\ events[i].kind = "VISIT_EDGE" /\ events[i].b = 3
        /\ events[j].kind = "VISIT_EDGE" /\ events[j].b = 3
        /\ events[j].a = node_ann.best_paths[3][1][1]
        /\ node_ann.best_paths[events[i].a] # <<>>
        /\ Candidates(events[i].a, 3) = <<>>
        /\ \A k \in 1..Len(node_ann.best_paths[events[i].a]) :
               ~InSeq(3, node_ann.best_paths[events[i].a][k])

====
